---- MODULE Spec2Model ----
(***************************************************************************)
(* RVK-PICA Classifier AI: the notation validator (config_validator.py),   *)
(* the hierarchical combination and priority search                        *)
(* (rvk_hierarchical_combinations.py) and the analysis entry point         *)
(* (main_app.py).                                                          *)
(*                                                                         *)
(* Python str values are TLA+ strings; a character is a string of length   *)
(* one (SubSeq(s, i, i)).  Python floats are modelled by exact integers in *)
(* a scaled unit, named where they are used; int() is the floor of the     *)
(* exact value (all values are non-negative).                              *)
(***************************************************************************)
EXTENDS Integers, Sequences, FiniteSets, TLC

VARIABLES
  \* a call of one function on its own
  fn,                \* the function under call: its name
  input,             \* its arguments
  output,            \* its return value
  returned,          \* whether it has returned
  \* a run of analyze_pica_data_with_rvk_hierarchy
  pc,                          \* where the run stands
  rvk_enabled,                 \* config['rvk']['enabled']
  ai_analysis,                 \* analyzed_data, the validator's ai_analysis
  validated_cache,             \* the validator's validated_cache
  invalid_cache,               \* the validator's invalid_cache
  rvk_combinations,            \* what extract_rvk_hierarchical_combinations returned
  signals,                     \* priority_hauptgruppen, primary_keyword, regional preferences
  nodes_responses,             \* the latest /nodes search: its terms and the answers
  initial_potential_results,   \* the search's list, sorted for the exploration
  all_results,                 \* the results collected for rescoring
  seen_notations,              \* the notations met so far
  cursor,                      \* the loop index of the running loop
  children_found,              \* the children_of_top_result lists, concatenated
  emergency_results,           \* what the emergency search returned
  final_results_with_scores,   \* the rescored results
  suggestions                  \* the list the run returns

(***************************************************************************)
(* Python built-ins on str, list and set                                   *)
(***************************************************************************)
Min(a, b) == IF a <= b THEN a ELSE b

Max(a, b) == IF a >= b THEN a ELSE b

Char(s, i) == SubSeq(s, i, i)

\* Python: sub in s
Contains(s, sub) ==
  \E i \in 1..(Len(s) - Len(sub) + 1) : SubSeq(s, i, i + Len(sub) - 1) = sub

\* Python: s.startswith(p); re.match of an escaped literal
StartsWith(s, p) == Len(p) <= Len(s) /\ SubSeq(s, 1, Len(p)) = p

UpperChars == "ABCDEFGHIJKLMNOPQRSTUVWXYZÄÖÜ"

LowerChars == "abcdefghijklmnopqrstuvwxyzäöü"

DigitChars == "0123456789"

CharsOf(s) == { Char(s, i) : i \in 1..Len(s) }

SpaceChars == {" ", "\t", "\n", "\r"}

AlphaChars == CharsOf(UpperChars) \cup CharsOf(LowerChars) \cup {"ß"}

DigitCharSet == CharsOf(DigitChars)

\* regex class \w
WordChars == AlphaChars \cup DigitCharSet \cup {"_"}

IsSpaceChar(c) == c \in SpaceChars

IsAlphaChar(c) == c \in AlphaChars

IsDigitChar(c) == c \in DigitCharSet

IsWordChar(c) == c \in WordChars

\* Python: s.isalpha()
IsAlpha(s) == s # "" /\ \A i \in 1..Len(s) : IsAlphaChar(Char(s, i))

\* Python: s.isdigit()
IsDigit(s) == s # "" /\ \A i \in 1..Len(s) : IsDigitChar(Char(s, i))

\* the lower-case form of each upper-case character, and the reverse
LowerOf == [c \in CharsOf(UpperChars) |->
              Char(LowerChars, CHOOSE i \in 1..Len(UpperChars) : Char(UpperChars, i) = c)]

UpperOf == [c \in CharsOf(LowerChars) |->
              Char(UpperChars, CHOOSE i \in 1..Len(LowerChars) : Char(LowerChars, i) = c)]

\* Python: s.lower()
RECURSIVE Lower(_)
Lower(s) ==
  IF s = "" THEN ""
  ELSE (IF Char(s, 1) \in DOMAIN LowerOf THEN LowerOf[Char(s, 1)] ELSE Char(s, 1))
       \o Lower(SubSeq(s, 2, Len(s)))

\* Python: s.upper() ("ß" becomes "SS")
RECURSIVE Upper(_)
Upper(s) ==
  IF s = "" THEN ""
  ELSE (IF Char(s, 1) = "ß" THEN "SS"
        ELSE IF Char(s, 1) \in DOMAIN UpperOf THEN UpperOf[Char(s, 1)]
        ELSE Char(s, 1))
       \o Upper(SubSeq(s, 2, Len(s)))

RECURSIVE LStrip(_)
LStrip(s) ==
  IF s # "" /\ IsSpaceChar(Char(s, 1)) THEN LStrip(SubSeq(s, 2, Len(s))) ELSE s

RECURSIVE RStrip(_)
RStrip(s) ==
  IF s # "" /\ IsSpaceChar(Char(s, Len(s))) THEN RStrip(SubSeq(s, 1, Len(s) - 1)) ELSE s

\* Python: s.strip()
Strip(s) == RStrip(LStrip(s))

\* Python: s.split() (runs of whitespace separate, no empty token)
RECURSIVE Split(_)
Split(s) ==
  LET t == LStrip(s)
      stops == { i \in 1..Len(t) : IsSpaceChar(Char(t, i)) }
      n == IF stops = {} THEN Len(t) + 1
           ELSE CHOOSE i \in stops : \A j \in stops : i <= j
  IN IF t = "" THEN << >>
     ELSE << SubSeq(t, 1, n - 1) >> \o Split(SubSeq(t, n + 1, Len(t)))

\* Python: s.split(sep) (empty tokens kept)
RECURSIVE SplitOn(_, _)
SplitOn(s, sep) ==
  LET hits == { i \in 1..(Len(s) - Len(sep) + 1) : SubSeq(s, i, i + Len(sep) - 1) = sep }
      n == CHOOSE i \in hits : \A j \in hits : i <= j
  IN IF hits = {} THEN << s >>
     ELSE << SubSeq(s, 1, n - 1) >> \o SplitOn(SubSeq(s, n + Len(sep), Len(s)), sep)

\* Python: sep.join(parts)
RECURSIVE Join(_, _)
Join(parts, sep) ==
  IF parts = << >> THEN ""
  ELSE IF Len(parts) = 1 THEN parts[1]
  ELSE parts[1] \o sep \o Join(Tail(parts), sep)

\* Python: set(re.findall(r'\b\w+\b', s)): the maximal runs of word characters
Words(s) ==
  LET starts == { i \in 1..Len(s) :
                    /\ IsWordChar(Char(s, i))
                    /\ (i = 1 \/ ~IsWordChar(Char(s, i - 1))) }
      EndOf(i) == CHOOSE j \in i..Len(s) :
                    /\ \A k \in i..j : IsWordChar(Char(s, k))
                    /\ (j = Len(s) \/ ~IsWordChar(Char(s, j + 1)))
  IN { SubSeq(s, i, EndOf(i)) : i \in starts }

RECURSIVE SumSeq(_)
SumSeq(xs) == IF xs = << >> THEN 0 ELSE Head(xs) + SumSeq(Tail(xs))

Range(xs) == { xs[i] : i \in 1..Len(xs) }

\* Python: any(x in text for x in xs)
AnyIn(xs, text) == \E i \in 1..Len(xs) : Contains(text, xs[i])

\* all sequences over S of length at most n
SeqsUpTo(S, n) == UNION { [1..k -> S] : k \in 0..n }

(***************************************************************************)
(* Module-level tables of rvk_hierarchical_combinations.py and the table   *)
(* of calculate_relevance_for_description, in the source's order (Python   *)
(* dicts iterate in insertion order).                                      *)
(***************************************************************************)
HAUPTGRUPPE_MAPPING ==
  << [hauptgruppe |-> "A",
      keywords |->
        << "bibliographie", "nachschlagewerk", "wissenschaftskunde", "hochschule", "buch", "medien",
           "kommunikation", "umwelt" >>,
      description |-> "General, Bibliographies, Reference Works",
      untergruppen |->
        << <<"AA", "Bibliographies - General">>, <<"AB", "Bibliographies - Subject Bibliographies">>,
           <<"AC", "Reference Works - General">>, <<"AD", "Science Studies">>,
           <<"AL", "Higher Education">>, <<"AN", "Book and Library Science">>,
           <<"AP", "Media and Communication Science">>, <<"AR", "Environmental Sciences">> >>,
      feingruppen_examples |->
        << >>],
     [hauptgruppe |-> "B",
      keywords |->
        << "theologie", "religion", "gott", "kirche", "glaube", "christentum",
           "islam", "judentum" >>,
      description |-> "Theology and Religious Studies",
      untergruppen |->
        << <<"BA", "Theology - General">>, <<"BB", "Biblical Theology">>,
           <<"BC", "Church History">>, <<"BD", "Systematic Theology">>,
           <<"BE", "Practical Theology">>, <<"BH", "Christian Denominations">>,
           <<"BL", "Non-Christian Religions">> >>,
      feingruppen_examples |->
        << >>],
     [hauptgruppe |-> "C",
      keywords |->
        << "philosophie", "denken", "ethik", "psychologie", "verhalten", "bewusstsein" >>,
      description |-> "Philosophy and Psychology",
      untergruppen |->
        << <<"CA", "Philosophy - General">>, <<"CB", "Logic and Epistemology">>,
           <<"CC", "Metaphysics">>, <<"CD", "Philosophical Anthropology">>,
           <<"CE", "Ethics">>, <<"CL", "Psychology - General">>,
           <<"CM", "Developmental Psychology">>, <<"CP", "Applied Psychology">> >>,
      feingruppen_examples |->
        << >>],
     [hauptgruppe |-> "D",
      keywords |->
        << "pädagogik", "erziehung", "bildung", "schule", "lernen", "didaktik" >>,
      description |-> "Education",
      untergruppen |->
        << <<"DA", "Education - General">>, <<"DB", "Educational Philosophy">>,
           <<"DC", "History of Education">>, <<"DD", "Educational Sociology">>,
           <<"DF", "School Education">>, <<"DK", "Adult Education">> >>,
      feingruppen_examples |->
        << >>],
     [hauptgruppe |-> "G",
      keywords |->
        << "deutsch", "germanistik", "niederländisch", "skandinavisch", "literatur" >>,
      description |-> "German Studies, Dutch Philology, Scandinavian Studies",
      untergruppen |->
        << <<"GA", "German Studies - General">>, <<"GB", "German Linguistics">>,
           <<"GE", "German Literary History">>, <<"GI", "German Authors">>,
           <<"GL", "Dutch Philology">>, <<"GN", "Scandinavian Philology">> >>,
      feingruppen_examples |->
        << <<"GE 4001", "German Literature Medieval Period">>, <<"GE 5000", "German Literature 16th-18th Century">>,
           <<"GB 1729", "German Linguistics Dialectology">> >>],
     [hauptgruppe |-> "L",
      keywords |->
        << "kultur", "ethnologie", "archäologie", "kunst", "musik", "bildung" >>,
      description |-> "Cultural Studies",
      untergruppen |->
        << <<"LA", "Ethnology">>, <<"LB", "Education and Learning">>,
           <<"LC", "Cultural Science">>, <<"LD", "Classical Archaeology">>,
           <<"LH", "Art History">>, <<"LI", "Islamic Art">>,
           <<"LJ", "East Asian Art">>, <<"LK", "American Art">>,
           <<"LP", "Musicology">> >>,
      feingruppen_examples |->
        << <<"LB 56000", "Higher Education System">>, <<"LB 34000", "Education System Germany">>,
           <<"LD 1100", "Archaeological Methods">>, <<"LH 65000", "Art History Germany">>,
           <<"LP 90000", "Music History">> >>],
     [hauptgruppe |-> "M",
      keywords |->
        << "politik", "soziologie", "gesellschaft", "migration", "integration", "sozial",
           "militär" >>,
      description |-> "Political Science, Sociology, Military Science",
      untergruppen |->
        << <<"MA", "Political Science - General">>, <<"MB", "Political Science - State Theory">>,
           <<"MC", "Political Science - Political Systems">>, <<"MD", "Political Science - Political Ideologies">>,
           <<"ME", "Political Science - Foreign Policy">>, <<"MF", "Political Science - Domestic Policy">>,
           <<"MG", "Political Science - Parties">>, <<"MH", "Political Science - Elections">>,
           <<"MI", "Political Science - Administration">>, <<"MN", "Sociology - General">>,
           <<"MQ", "Sociology - Special Sociologies">>, <<"MR", "Sociology - Demographics">>,
           <<"MS", "Sociology - Social Structure">>, <<"MX", "Military Science">> >>,
      feingruppen_examples |->
        << <<"MN 1000", "Sociology General">>, <<"MN 8300", "Migration, Population Movement">>,
           <<"MS 1200", "Social Structure Germany">>, <<"MQ 3200", "Urban Sociology">>,
           <<"MA 1000", "Political Science General">> >>],
     [hauptgruppe |-> "N",
      keywords |->
        << "geschichte", "historisch", "vergangenheit", "zeitgeschichte" >>,
      description |-> "History",
      untergruppen |->
        << <<"NB", "History - Auxiliary Sciences">>, <<"NC", "History - General">>,
           <<"ND", "Prehistoric Archaeology">>, <<"NF", "Ancient History">>,
           <<"NH", "Medieval History">>, <<"NK", "Modern History">>,
           <<"NP", "European History">>, <<"NQ", "German History">>,
           <<"NR", "German Regional History">>, <<"NS", "German Local History">>,
           <<"NT", "Austrian History">>, <<"NU", "Swiss History">>,
           <<"NV", "French History">>, <<"NW", "British History">>,
           <<"NX", "Russian History">>, <<"NY", "American History">>,
           <<"NZ", "African, Asian, Oceanian History">> >>,
      feingruppen_examples |->
        << <<"NQ 1000", "German History General">>, <<"NQ 6100", "Germany 1945-1990">>,
           <<"NR 6050", "Saxony History">>, <<"NP 1000", "European History General">> >>],
     [hauptgruppe |-> "P",
      keywords |->
        << "recht", "gesetz", "juridisch", "legal", "rechtswissenschaft", "justiz" >>,
      description |-> "Legal Studies",
      untergruppen |->
        << <<"PA", "Legal Studies - General">>, <<"PB", "Legal Philosophy">>,
           <<"PC", "Legal History">>, <<"PD", "Civil Law">>,
           <<"PE", "Commercial Law">>, <<"PF", "Labor Law">>,
           <<"PG", "Administrative Law">>, <<"PH", "Constitutional Law">>,
           <<"PI", "Tax Law">>, <<"PJ", "Criminal Law">>,
           <<"PK", "Procedural Law">> >>,
      feingruppen_examples |->
        << >>],
     [hauptgruppe |-> "Q",
      keywords |->
        << "wirtschaft", "ökonomie", "management", "finanzen", "betrieb", "unternehmen" >>,
      description |-> "Economics",
      untergruppen |->
        << <<"QA", "Economics - General">>, <<"QB", "Economic Theory">>,
           <<"QC", "Economic History">>, <<"QD", "Economic Policy">>,
           <<"QE", "Macroeconomics">>, <<"QH", "Business Administration">>,
           <<"QI", "Public Finance">>, <<"QK", "Banking">>,
           <<"QL", "Money and Credit">>, <<"QP", "Enterprises">>,
           <<"QR", "Trade">> >>,
      feingruppen_examples |->
        << >>],
     [hauptgruppe |-> "S",
      keywords |->
        << "mathematik", "statistik", "informatik", "computer", "algorithmus", "software" >>,
      description |-> "Mathematics and Computer Science",
      untergruppen |->
        << <<"SA", "Mathematics - General">>, <<"SB", "Algebra">>,
           <<"SC", "Geometry">>, <<"SD", "Analysis">>,
           <<"SE", "Probability Theory">>, <<"SF", "Statistics">>,
           <<"SG", "Numerical Mathematics">>, <<"SH", "Applied Mathematics">>,
           <<"SI", "Computer Science - General">>, <<"SK", "Theoretical Computer Science">>,
           <<"SM", "Data Processing">>, <<"SN", "Programming">>,
           <<"SO", "Operating Systems">>, <<"SP", "Applied Computer Science">>,
           <<"SQ", "Computer Graphics">>, <<"SR", "Artificial Intelligence">>,
           <<"SS", "Software Engineering">>, <<"ST", "Computer Science - Applications">> >>,
      feingruppen_examples |->
        << >>],
     [hauptgruppe |-> "V",
      keywords |->
        << "chemie", "pharmazie", "molekül", "reaktion", "stoffkunde", "arzneimittel" >>,
      description |-> "Chemistry and Pharmacy",
      untergruppen |->
        << <<"VA", "Chemistry - General">>, <<"VB", "Theoretical Chemistry">>,
           <<"VC", "Inorganic Chemistry">>, <<"VD", "Organic Chemistry">>,
           <<"VE", "Physical Chemistry">>, <<"VF", "Analytical Chemistry">>,
           <<"VG", "Biochemistry">>, <<"VH", "Technical Chemistry">>,
           <<"VI", "Pharmacy - General">>, <<"VJ", "Pharmaceutical Chemistry">>,
           <<"VK", "Pharmacology">>, <<"VL", "Toxicology">> >>,
      feingruppen_examples |->
        << >>],
     [hauptgruppe |-> "W",
      keywords |->
        << "biologie", "botanik", "zoologie", "genetik", "ökologie", "evolution",
           "medizin" >>,
      description |-> "Biology and Pre-Clinical Medicine",
      untergruppen |->
        << <<"WA", "Biology - General">>, <<"WB", "Systematic Biology">>,
           <<"WC", "Botany">>, <<"WD", "Zoology">>,
           <<"WE", "Anthropology">>, <<"WF", "Genetics">>,
           <<"WG", "Ecology">>, <<"WH", "Developmental Biology">>,
           <<"WI", "Molecular Biology">>, <<"WJ", "Microbiology">>,
           <<"WK", "Anatomy">>, <<"WL", "Physiology">>,
           <<"WM", "Pathology">> >>,
      feingruppen_examples |->
        << >>],
     [hauptgruppe |-> "Y",
      keywords |->
        << "medizin", "klinisch", "diagnose", "therapie", "chirurgie", "innere medizin" >>,
      description |-> "Clinical Medicine",
      untergruppen |->
        << <<"YA", "Clinical Medicine - General">>, <<"YB", "Internal Medicine">>,
           <<"YC", "Surgery">>, <<"YD", "Gynecology">>,
           <<"YE", "Pediatrics">>, <<"YF", "Dermatology">>,
           <<"YG", "Psychiatry">>, <<"YH", "Neurology">>,
           <<"YI", "Radiology">>, <<"YJ", "Anesthesiology">> >>,
      feingruppen_examples |->
        << >>],
     [hauptgruppe |-> "Z",
      keywords |->
        << "land", "forst", "garten", "fischerei", "hauswirtschaft", "technik",
           "ingenieur", "sport" >>,
      description |-> "Agriculture, Forestry, Technology, Sports",
      untergruppen |->
        << <<"ZA", "Agriculture and Forestry - General">>, <<"ZB", "Plant Cultivation">>,
           <<"ZC", "Animal Breeding">>, <<"ZD", "Forestry">>,
           <<"ZE", "Horticulture">>, <<"ZF", "Fisheries">>,
           <<"ZG", "Technology - General">>, <<"ZH", "Mechanical Engineering">>,
           <<"ZI", "Electrical Engineering">>, <<"ZJ", "Civil Engineering">>,
           <<"ZK", "Transportation">>, <<"ZL", "Mining">>,
           <<"ZM", "Metallurgy">>, <<"ZN", "Chemical Technology">>,
           <<"ZO", "Process Engineering">>, <<"ZP", "Environmental Technology">>,
           <<"ZQ", "Energy Technology">>, <<"ZR", "Home Economics">>,
           <<"ZX", "Sports - General">>, <<"ZY", "Sports Categories">> >>,
      feingruppen_examples |->
        << >>] >>

REGIONAL_INDICATORS ==
  << [region |-> "deutschland",
      indicators |->
        << "deutschland", "german", "bundesrepublik", "brd", "deutsche", "sachsen",
           "chemnitz", "dresden", "leipzig", "ostdeutschland", "bayern", "münchen",
           "nürnberg", "nrw", "nordrhein-westfalen", "köln", "düsseldorf", "dortmund",
           "essen", "baden-württemberg", "stuttgart", "karlsruhe", "mannheim", "hessen",
           "frankfurt", "wiesbaden", "kassel", "darmstadt", "niedersachsen", "hannover",
           "braunschweig", "göttingen" >>],
     [region |-> "europa",
      indicators |->
        << "europa", "european", "eu", "europäisch" >>],
     [region |-> "usa",
      indicators |->
        << "usa", "america", "vereinigte staaten", "amerikanisch", "new york", "kalifornien" >>],
     [region |-> "großbritannien",
      indicators |->
        << "großbritannien", "england", "britain", "british", "uk" >>],
     [region |-> "frankreich",
      indicators |->
        << "frankreich", "france", "französisch", "paris" >>],
     [region |-> "italien",
      indicators |->
        << "italien", "italy", "italienisch", "rom" >>],
     [region |-> "spanien",
      indicators |->
        << "spanien", "spain", "spanisch", "madrid" >>],
     [region |-> "russland",
      indicators |->
        << "russland", "russia", "russisch", "moskau" >>],
     [region |-> "china",
      indicators |->
        << "china", "chinese", "chinesisch", "beijing" >>],
     [region |-> "japan",
      indicators |->
        << "japan", "japanese", "japanisch", "tokyo" >>],
     [region |-> "brasilien",
      indicators |->
        << "brasilien", "brazil", "südamerika", "buenos aires", "argentinien" >>],
     [region |-> "afrika",
      indicators |->
        << "afrika", "african", "afrikanisch" >>],
     [region |-> "asien",
      indicators |->
        << "asien", "asian", "asiatisch" >>],
     [region |-> "global",
      indicators |->
        << "international", "global", "weltweit", "transnational" >>] >>

FORM_INDICATORS ==
  << [form_type |-> "empirical study",
      indicators |->
        << "empirie", "studie", "untersuchung", "befragung", "interview", "feldforschung" >>],
     [form_type |-> "quantitative analysis",
      indicators |->
        << "statistik", "quantitativ", "zahlen", "daten", "messung", "survey" >>],
     [form_type |-> "qualitative research",
      indicators |->
        << "qualitativ", "ethnographie", "fallstudie", "narrativ" >>],
     [form_type |-> "theoretical work",
      indicators |->
        << "theorie", "konzept", "modell", "framework", "ansatz" >>],
     [form_type |-> "comparative study",
      indicators |->
        << "vergleich", "komparativ", "international", "cross-cultural" >>],
     [form_type |-> "handbook",
      indicators |->
        << "handbuch", "lehrbuch", "einführung", "grundlagen" >>],
     [form_type |-> "encyclopedia",
      indicators |->
        << "lexikon", "wörterbuch", "enzyklopädie", "nachschlagewerk" >>],
     [form_type |-> "bibliography",
      indicators |->
        << "bibliographie", "literaturverzeichnis", "quellen" >>],
     [form_type |-> "conference proceedings",
      indicators |->
        << "kongress", "tagung", "konferenz", "symposium" >>],
     [form_type |-> "journal",
      indicators |->
        << "zeitschrift", "journal", "periodikum" >>],
     [form_type |-> "dissertation",
      indicators |->
        << "dissertation", "doktorarbeit", "promotion" >>],
     [form_type |-> "collected volume",
      indicators |->
        << "sammelband", "herausgeber", "beiträge", "aufsätze" >>] >>

EPOCHEN_INDICATORS ==
  << [epoche |-> "antiquity",
      indicators |->
        << "antike", "altertum", "römisch", "griechisch", "klassisch" >>],
     [epoche |-> "medieval",
      indicators |->
        << "mittelalter", "medieval", "mittelalterlich" >>],
     [epoche |-> "early modern",
      indicators |->
        << "frühe neuzeit", "renaissance", "16.", "17." >>],
     [epoche |-> "18th century",
      indicators |->
        << "18.", "1700", "aufklärung", "achtzehntes" >>],
     [epoche |-> "19th century",
      indicators |->
        << "19.", "1800", "1900", "neunzehntes" >>],
     [epoche |-> "20th century",
      indicators |->
        << "20.", "1900", "2000", "zwanzigstes" >>],
     [epoche |-> "21st century",
      indicators |->
        << "21.", "2000", "einundzwanzigstes", "modern", "zeitgenössisch" >>],
     [epoche |-> "post 1945",
      indicators |->
        << "nach 1945", "nachkriegszeit", "bundesrepublik" >>],
     [epoche |-> "post 1989",
      indicators |->
        << "nach 1989", "wiedervereinigung", "post-wende" >>],
     [epoche |-> "gdr period",
      indicators |->
        << "ddr", "deutsche demokratische republik", "1949-1989" >>],
     [epoche |-> "weimar republic",
      indicators |->
        << "weimarer republik", "1918-1933", "zwischenkriegszeit" >>],
     [epoche |-> "third reich",
      indicators |->
        << "drittes reich", "1933-1945", "nationalsozialismus" >>],
     [epoche |-> "historical",
      indicators |->
        << "geschichte", "historisch", "vergangenheit" >>],
     [epoche |-> "contemporary",
      indicators |->
        << "heute", "aktuell", "gegenwart", "contemporary" >>] >>

semantic_equivalents ==
  << [key |-> "migration",
      equivalents |->
        << "zuwanderung", "einwanderung", "auswanderung", "flucht", "vertreibung", "migrationsforschung",
           "bevölkerungsbewegung" >>],
     [key |-> "integration",
      equivalents |->
        << "soziale integration", "eingliederung", "inkulturation", "integrationsprozesse", "assimilation" >>],
     [key |-> "interkulturell",
      equivalents |->
        << "kulturtransfer", "interkulturalität", "multikulturell", "interkulturelle beziehungen", "kulturkontakt" >>],
     [key |-> "stadtforschung",
      equivalents |->
        << "urbanistik", "stadtentwicklung", "kommunal", "lokal", "stadtsoziologie", "urban" >>],
     [key |-> "soziologie",
      equivalents |->
        << "gesellschaftswissenschaften", "sozialwissenschaften", "gesellschaft" >>],
     [key |-> "gesellschaftlicher wandel",
      equivalents |->
        << "sozialer wandel", "soziokulturell", "demographischer wandel", "transformation" >>],
     [key |-> "informatik",
      equivalents |->
        << "computer", "software", "algorithmus", "digital", "technologie", "it" >>],
     [key |-> "medizin",
      equivalents |->
        << "gesundheit", "klinik", "diagnose", "therapie", "healthcare", "medical" >>],
     [key |-> "bildung",
      equivalents |->
        << "erziehung", "pädagogik", "schule", "universität", "ausbildung", "lernen" >>],
     [key |-> "recht",
      equivalents |->
        << "gesetz", "juridisch", "legal", "justiz", "rechtswissenschaft" >>],
     [key |-> "wirtschaft",
      equivalents |->
        << "ökonomie", "management", "finanzen", "betrieb", "unternehmen" >>],
     [key |-> "geschichte",
      equivalents |->
        << "historisch", "vergangenheit", "zeitgeschichte", "historie" >>],
     [key |-> "kunst",
      equivalents |->
        << "ästhetik", "künstlerisch", "kreativ", "design", "kultur" >>],
     [key |-> "musik",
      equivalents |->
        << "musikwissenschaft", "musikalisch", "komposition", "audio" >>],
     [key |-> "literatur",
      equivalents |->
        << "schrift", "text", "roman", "gedicht", "literarisch" >>],
     [key |-> "philosophie",
      equivalents |->
        << "denken", "ethik", "metaphysik", "erkenntnistheorie" >>],
     [key |-> "psychologie",
      equivalents |->
        << "verhalten", "kognition", "entwicklung", "persönlichkeit" >>],
     [key |-> "politik",
      equivalents |->
        << "staat", "regierung", "demokratie", "verwaltung", "politisch" >>],
     [key |-> "naturwissenschaft",
      equivalents |->
        << "physik", "chemie", "biologie", "wissenschaft", "forschung" >>],
     [key |-> "mathematik",
      equivalents |->
        << "zahlen", "statistik", "algebra", "geometrie", "rechnen" >>] >>

(***************************************************************************)
(* RVKNotationValidator.calculate_relevance_for_description                *)
(***************************************************************************)
\* semantic_equivalents[keyword_lower] when the key is present, else nothing
EquivalentsOf(keyword_lower) ==
  LET hits == { i \in 1..Len(semantic_equivalents) :
                  semantic_equivalents[i].key = keyword_lower }
  IN IF hits = {} THEN << >>
     ELSE semantic_equivalents[CHOOSE i \in hits : TRUE].equivalents

\* one pass of the loop over keywords: +40 for the literal, +20 per equivalent
KeywordScore(keyword, description_lower) ==
  LET keyword_lower == Strip(Lower(keyword))
      equivalents == EquivalentsOf(keyword_lower)
  IN (IF Contains(description_lower, keyword_lower) THEN 40 ELSE 0)
     + 20 * Cardinality({ i \in 1..Len(equivalents) :
                            Contains(description_lower, equivalents[i]) })

\* score += min(30, overlap_count * 5)
OverlapBonus(keywords, description_lower) ==
  LET doc_words == Words(Lower(Join(keywords, " ")))
      desc_words == Words(description_lower)
      overlap_count == Cardinality(doc_words \cap desc_words)
  IN Min(30, overlap_count * 5)

\* the clamp without its lower bound
ClampAboveOnly(score) == Min(100, score)

\* return min(100, max(score, 10))
ClampRelevance(score) == Min(100, Max(score, 10))

calculate_relevance_for_description(keywords, description) ==
  IF description = "" THEN 10
  ELSE LET description_lower == Strip(Lower(description))
           score == SumSeq([i \in 1..Len(keywords) |->
                              KeywordScore(keywords[i], description_lower)])
       IN ClampRelevance(score + OverlapBonus(keywords, description_lower))

(***************************************************************************)
(* RVKNotationValidator.determine_rvk_hierarchy_level                      *)
(***************************************************************************)
RVKLevels ==
  {"Hauptgruppe", "Untergruppe", "Feingruppe", "Feingruppe + Schlüssel", "Unbekannt"}

\* what a call returns that ends without a return statement
NoLevel == "None"

\* the final return, reached when no branch returned
LevelFallThrough == "Unbekannt"

determine_rvk_hierarchy_level(notation) ==
  LET notation_clean == Strip(notation)
      parts == Split(notation_clean)
  IN IF Len(parts) = 1
     THEN IF Len(parts[1]) = 1 /\ IsAlpha(parts[1]) THEN "Hauptgruppe"
          ELSE IF Len(parts[1]) = 2 /\ IsAlpha(parts[1]) THEN "Untergruppe"
          ELSE IF Len(parts[1]) > 2 THEN "Untergruppe"
          ELSE LevelFallThrough
     ELSE IF Len(parts) = 2
     THEN IF IsAlpha(parts[1]) /\ IsDigit(parts[2]) THEN "Feingruppe"
          ELSE LevelFallThrough
     ELSE IF Len(parts) >= 3 THEN "Feingruppe + Schlüssel"
     ELSE LevelFallThrough

(***************************************************************************)
(* The remote RVK service as the validator sees it.  A response that is an *)
(* exception, a non-OK status or a malformed body has ok = FALSE: all      *)
(* three leave the loop body without a result.  An XML attribute that is   *)
(* missing (element.get returns None) is the value Absent.                 *)
(***************************************************************************)
Absent == "<absent>"

\* Python: not x, for x a str or None
Falsy(x) == x = "" \/ x = Absent

\* Python: d.get(key, default), the record field holding Absent for a missing key
Get(x, default) == IF x = Absent THEN default ELSE x

Failed == [ok |-> FALSE, nodes |-> << >>]

Ok(nodes) == [ok |-> TRUE, nodes |-> nodes]

Node(notation, benennung) == [notation |-> notation, benennung |-> benennung]

RECURSIVE Concat(_)
Concat(seqs) == IF seqs = << >> THEN << >> ELSE Head(seqs) \o Concat(Tail(seqs))

(***************************************************************************)
(* RVKNotationValidator.search_nodes_endpoint_and_validate                 *)
(***************************************************************************)
\* clean_prefixes = [re.escape(p.upper().strip()) for p in prefixes if p.strip()]
CleanPrefixes(rvk_notation_prefixes) ==
  { Strip(Upper(rvk_notation_prefixes[i])) :
      i \in { j \in 1..Len(rvk_notation_prefixes) : Strip(rvk_notation_prefixes[j]) # "" } }

\* prefix_regex.match(notation) for ^(p1|p2|...)\S* over escaped literals
PrefixRegexMatch(clean_prefixes, notation) ==
  \E p \in clean_prefixes : StartsWith(notation, p)

\* the filter without the regex
AdmittedUnfiltered(clean_prefixes, node) ==
  ~Falsy(node.notation) /\ ~Falsy(node.benennung)

\* whether a node element gets past the filter of the inner loop:
\* skipped without notation or benennung, and, when a regex was compiled,
\* skipped unless it matches
NodeAdmitted(clean_prefixes, node) ==
  /\ ~Falsy(node.notation)
  /\ ~Falsy(node.benennung)
  /\ (clean_prefixes # {} => PrefixRegexMatch(clean_prefixes, node.notation))

\* the dict appended to suggestions for one node element
Suggestion(term, node, clean_prefixes) ==
  [notation |-> node.notation,
   benennung |-> node.benennung,
   relevance |-> calculate_relevance_for_description(<< term >>, node.benennung),
   keyword |-> term,
   rvk_prefix_match |-> clean_prefixes # {},
   combination_type |-> Absent,
   depth |-> 0,
   rvk_hierarchy_level |-> Absent,
   hierarchical_path |-> << >>,
   hauptgruppe_match |-> FALSE]

\* one iteration of the loop over search_terms
SuggestionsOfTerm(term, response, clean_prefixes) ==
  IF Strip(term) = "" \/ ~response.ok THEN << >>
  ELSE LET admitted == SelectSeq(response.nodes,
                                 LAMBDA node : NodeAdmitted(clean_prefixes, node))
       IN [i \in 1..Len(admitted) |-> Suggestion(term, admitted[i], clean_prefixes)]

\* a later entry of the same relevance taking the place as well
ReplacesOnTie(sug, existing_sug) ==
  \/ sug.rvk_prefix_match /\ ~existing_sug.rvk_prefix_match
  \/ sug.relevance >= existing_sug.relevance

\* whether sug takes the place of the entry kept so far for its notation
Replaces(sug, existing_sug) ==
  \/ sug.rvk_prefix_match /\ ~existing_sug.rvk_prefix_match
  \/ sug.relevance > existing_sug.relevance

\* every suggestion kept
KeptAll(unique_suggestions, collected) == unique_suggestions \o collected

\* the loop building unique_suggestions: a dict keeps the position of a key
\* whose value is replaced
RECURSIVE MergeSuggestions(_, _)
MergeSuggestions(unique_suggestions, collected) ==
  IF collected = << >> THEN unique_suggestions
  ELSE LET sug == Head(collected)
           at == { i \in 1..Len(unique_suggestions) :
                     unique_suggestions[i].notation = sug.notation }
           i == CHOOSE i \in at : TRUE
       IN IF at = {}
          THEN MergeSuggestions(Append(unique_suggestions, sug), Tail(collected))
          ELSE IF Replaces(sug, unique_suggestions[i])
          THEN MergeSuggestions([unique_suggestions EXCEPT ![i] = sug], Tail(collected))
          ELSE MergeSuggestions(unique_suggestions, Tail(collected))

\* a failed request ending the whole search
AbortsOnFailure(search_terms, rvk_notation_prefixes, responses) ==
  IF \E i \in 1..Len(search_terms) : ~responses[i].ok THEN << >>
  ELSE MergeSuggestions(
         << >>,
         Concat([i \in 1..Len(search_terms) |->
                   SuggestionsOfTerm(search_terms[i], responses[i],
                                     CleanPrefixes(rvk_notation_prefixes))]))

\* responses[i] is what the service answers to search_terms[i]
search_nodes_endpoint_and_validate(search_terms, rvk_notation_prefixes, responses) ==
  LET clean_prefixes == CleanPrefixes(rvk_notation_prefixes)
      collected == Concat([i \in 1..Len(search_terms) |->
                               SuggestionsOfTerm(search_terms[i], responses[i],
                                                 clean_prefixes)])
  IN MergeSuggestions(<< >>, collected)

(***************************************************************************)
(* extract_rvk_hierarchical_combinations.  An analysis is a record; a str  *)
(* key that is missing holds Absent, a list key that is missing holds the  *)
(* empty sequence (every read of a list key is .get(key, [])).             *)
(***************************************************************************)
\* full_text: the five parts joined by a blank, lower-cased
FullText(analysis) ==
  Lower(Join(<< Get(analysis.title, ""),
                Get(analysis.abstract, ""),
                Get(analysis.mainTopic, ""),
                Join(analysis.subjects, " "),
                Join(analysis.relatedGermanConcepts, " ") >>, " "))

\* if any(kw in full_text for kw in data['keywords'])
Triggered(data, full_text) == AnyIn(data.keywords, full_text)

HauptgruppeContext(primary_keyword, full_text) ==
  Concat([g \in 1..Len(HAUPTGRUPPE_MAPPING) |->
    LET data == HAUPTGRUPPE_MAPPING[g]
    IN IF Triggered(data, full_text) /\ primary_keyword # ""
       THEN << primary_keyword \o " + " \o data.hauptgruppe
               \o " (" \o data.description \o ")" >>
       ELSE << >>])

\* untergruppe_keywords = data['keywords'] + [beschreibung.lower().split()[0]]
UntergruppeKeywords(data, beschreibung) ==
  data.keywords \o << Split(Lower(beschreibung))[1] >>

UntergruppeContext(primary_keyword, full_text) ==
  Concat([g \in 1..Len(HAUPTGRUPPE_MAPPING) |->
    LET data == HAUPTGRUPPE_MAPPING[g]
    IN IF Triggered(data, full_text)
       THEN Concat([u \in 1..Len(data.untergruppen) |->
              LET untergruppe == data.untergruppen[u][1]
                  beschreibung == data.untergruppen[u][2]
              IN IF AnyIn(UntergruppeKeywords(data, beschreibung), full_text)
                 THEN << primary_keyword \o " + " \o untergruppe
                         \o " (" \o beschreibung \o ")" >>
                 ELSE << >>])
       ELSE << >>])

FeingruppeContext(primary_keyword, full_text) ==
  Concat([g \in 1..Len(HAUPTGRUPPE_MAPPING) |->
    LET data == HAUPTGRUPPE_MAPPING[g]
    IN IF Triggered(data, full_text)
       THEN Concat([f \in 1..Len(data.feingruppen_examples) |->
              LET feingruppe_notation == data.feingruppen_examples[f][1]
                  feingruppe_desc == data.feingruppen_examples[f][2]
                  feingruppe_keywords == Split(Lower(feingruppe_desc))
              IN IF AnyIn(feingruppe_keywords, full_text)
                 THEN << primary_keyword \o " + " \o feingruppe_notation
                         \o " (" \o feingruppe_desc \o ")" >>
                 ELSE << >>])
       ELSE << >>])

\* found_normalized_regions
FoundRegions(full_text) ==
  { REGIONAL_INDICATORS[r].region :
      r \in { k \in 1..Len(REGIONAL_INDICATORS) :
                AnyIn(REGIONAL_INDICATORS[k].indicators, full_text) } }

\* the keys of REGIONAL_INDICATORS in the order of Python's sorted() on str
SortedRegionNames ==
  << "afrika", "asien", "brasilien", "china", "deutschland", "europa", "frankreich",
     "global", "großbritannien", "italien", "japan", "russland", "spanien", "usa" >>

\* sorted(list(found_normalized_regions))
SortedRegions(found) == SelectSeq(SortedRegionNames, LAMBDA name : name \in found)

RegionalSchluessel(analysis, primary_keyword, full_text) ==
  LET regions == SortedRegions(FoundRegions(full_text))
      subjects == analysis.subjects
  IN Concat([r \in 1..Len(regions) |->
       (IF primary_keyword # ""
        THEN << primary_keyword \o " + " \o regions[r] >> ELSE << >>)
       \o Concat([s \in 1..Len(subjects) |->
            IF Lower(subjects[s]) # primary_keyword
            THEN << Lower(subjects[s]) \o " + " \o regions[r] >> ELSE << >>])])

\* the form and the time period keys: one entry per triggered row of the table
IndicatorKeys(table, names, primary_keyword, full_text) ==
  Concat([k \in 1..Len(table) |->
    IF AnyIn(table[k].indicators, full_text) /\ primary_keyword # ""
    THEN << primary_keyword \o " + " \o names[k] >> ELSE << >>])

extract_rvk_hierarchical_combinations(analysis) ==
  LET full_text == FullText(analysis)
      primary_keyword == Lower(Get(analysis.primaryKeyword, ""))
  IN [hauptgruppe_context |-> HauptgruppeContext(primary_keyword, full_text),
      untergruppe_context |-> UntergruppeContext(primary_keyword, full_text),
      feingruppe_context |-> FeingruppeContext(primary_keyword, full_text),
      regional_schluessel |-> RegionalSchluessel(analysis, primary_keyword, full_text),
      form_schluessel |->
        IndicatorKeys(FORM_INDICATORS,
                      [k \in 1..Len(FORM_INDICATORS) |-> FORM_INDICATORS[k].form_type],
                      primary_keyword, full_text),
      epochen_schluessel |->
        IndicatorKeys(EPOCHEN_INDICATORS,
                      [k \in 1..Len(EPOCHEN_INDICATORS) |-> EPOCHEN_INDICATORS[k].epoche],
                      primary_keyword, full_text)]

(***************************************************************************)
(* search_with_hierarchical_priority_logic, steps 1 and 2: the signals     *)
(***************************************************************************)
AsciiUpper == "ABCDEFGHIJKLMNOPQRSTUVWXYZ"

\* regex class [A-Z]
AsciiUpperChars == CharsOf(AsciiUpper)

\* re.search(r'\+ ([A-Z]) ', combination): group 1 of the leftmost match, or ""
HauptgruppeOf(combination) ==
  LET hits == { i \in 1..(Len(combination) - 3) :
                  /\ Char(combination, i) = "+"
                  /\ Char(combination, i + 1) = " "
                  /\ Char(combination, i + 2) \in AsciiUpperChars
                  /\ Char(combination, i + 3) = " " }
  IN IF hits = {} THEN ""
     ELSE Char(combination, 2 + CHOOSE i \in hits : \A j \in hits : i <= j)

\* step 1: the loop over keyword_combinations['hauptgruppe_context']
RECURSIVE PriorityHauptgruppen(_, _)
PriorityHauptgruppen(priority_hauptgruppen, combinations) ==
  IF combinations = << >> THEN priority_hauptgruppen
  ELSE LET combination == Head(combinations)
           hauptgruppe == IF Contains(combination, " + ")
                          THEN Strip(HauptgruppeOf(combination)) ELSE ""
       IN IF hauptgruppe # "" /\ hauptgruppe \notin Range(priority_hauptgruppen)
          THEN PriorityHauptgruppen(Append(priority_hauptgruppen, hauptgruppe),
                                    Tail(combinations))
          ELSE PriorityHauptgruppen(priority_hauptgruppen, Tail(combinations))

\* step 2: the loop over keyword_combinations['regional_schluessel'];
\* acc is [primary_keyword, regional_preferences]
RECURSIVE RegionalSignals(_, _)
RegionalSignals(acc, combinations) ==
  IF combinations = << >> THEN acc
  ELSE LET combination == Head(combinations)
           parts == SplitOn(combination, " + ")
       IN IF Contains(combination, " + ")
          THEN RegionalSignals(
                 [primary_keyword |-> IF acc.primary_keyword = "" THEN parts[1]
                                      ELSE acc.primary_keyword,
                  regional_preferences |-> Append(acc.regional_preferences, parts[2])],
                 Tail(combinations))
          ELSE RegionalSignals(acc, Tail(combinations))

\* keyword_combinations.items(), in the order the dict was built
BucketOrder(keyword_combinations) ==
  << keyword_combinations.hauptgruppe_context,
     keyword_combinations.untergruppe_context,
     keyword_combinations.feingruppe_context,
     keyword_combinations.regional_schluessel,
     keyword_combinations.form_schluessel,
     keyword_combinations.epochen_schluessel >>

\* the first non-empty first part of a non-empty bucket's first entry, or ""
FirstBucketKeyword(keyword_combinations) ==
  LET buckets == BucketOrder(keyword_combinations)
      hits == { b \in 1..Len(buckets) :
                  buckets[b] # << >> /\ SplitOn(buckets[b][1], " + ")[1] # "" }
  IN IF hits = {} THEN ""
     ELSE SplitOn(buckets[CHOOSE b \in hits : \A c \in hits : b <= c][1], " + ")[1]

\* the signals: priority_hauptgruppen, primary_keyword, regional_preferences
DeriveSignals(keyword_combinations, analysis) ==
  LET regional == RegionalSignals([primary_keyword |-> "", regional_preferences |-> << >>],
                                  keyword_combinations.regional_schluessel)
      from_buckets == IF regional.primary_keyword # "" THEN regional.primary_keyword
                      ELSE FirstBucketKeyword(keyword_combinations)
  IN [priority_hauptgruppen |->
        PriorityHauptgruppen(<< >>, keyword_combinations.hauptgruppe_context),
      primary_keyword |->
        IF from_buckets # "" THEN from_buckets
        ELSE Get(analysis.primaryKeyword, "gesellschaft"),
      regional_preferences |-> regional.regional_preferences]

(***************************************************************************)
(* Python's sorted() and list.sort(): stable.  The result is given by the  *)
(* position each element takes: ahead of it are the elements with a        *)
(* smaller key (a greater key under reverse=True) and the earlier elements *)
(* with an equal key.                                                      *)
(***************************************************************************)
PlaceAscending(keys, i) ==
  1 + Cardinality({ j \in 1..Len(keys) :
                      keys[j] < keys[i] \/ (keys[j] = keys[i] /\ j < i) })

PlaceDescending(keys, i) ==
  1 + Cardinality({ j \in 1..Len(keys) :
                      keys[j] > keys[i] \/ (keys[j] = keys[i] /\ j < i) })

\* sorted(xs, key=...), keys[i] being the key of xs[i]
SortedAscending(xs, keys) ==
  LET place == [i \in 1..Len(xs) |-> PlaceAscending(keys, i)]
  IN [p \in 1..Len(xs) |-> xs[CHOOSE i \in 1..Len(xs) : place[i] = p]]

\* xs.sort(key=..., reverse=True)
SortedDescending(xs, keys) ==
  LET place == [i \in 1..Len(xs) |-> PlaceDescending(keys, i)]
  IN [p \in 1..Len(xs) |-> xs[CHOOSE i \in 1..Len(xs) : place[i] = p]]

\* the list as it stands, not sorted
LeftAsCollected(xs) == xs

\* xs.sort(key=lambda x: x.get('relevance', 0), reverse=True)
SortByRelevance(xs) == SortedDescending(xs, [i \in 1..Len(xs) |-> xs[i].relevance])

\* xs[:n]
Take(xs, n) == SubSeq(xs, 1, Min(n, Len(xs)))

(***************************************************************************)
(* RVKNotationValidator.validate_notation.  The caches are                 *)
(* [validated_cache, invalid_cache]: a function from the notations         *)
(* validated so far to their nodes, and a set.  The remote answer is       *)
(* [kind, notation, benennung] with kind one of                            *)
(*   "raise"      requests.get raised (unreachable, timeout)               *)
(*   "not_ok"     a response with a non-OK status                          *)
(*   "malformed"  an OK response whose body does not parse                 *)
(*   "no_node"    an OK response without a node element                    *)
(*   "node"       an OK response with a node element                       *)
(* The result is [node, validated_cache, invalid_cache, requested]; node   *)
(* is NoNode for Python's None.                                            *)
(***************************************************************************)
NoNode == [notation |-> Absent, benennung |-> Absent]

NodeAnswer(kind, notation, benennung) ==
  [kind |-> kind, notation |-> notation, benennung |-> benennung]

\* validated_cache[notation] = validated_notation
CachePut(cache, notation, node) ==
  [n \in DOMAIN cache \cup {notation} |->
     IF n = notation THEN node ELSE cache[n]]

\* the request made and its answer recorded, whatever the caches hold
Requested(notation, caches, answer) ==
  IF answer.kind = "raise"
  THEN [node |-> NoNode,
        validated_cache |-> caches.validated_cache,
        invalid_cache |-> caches.invalid_cache,
        requested |-> TRUE]
  ELSE IF answer.kind = "node"
  THEN [node |-> [notation |-> Get(answer.notation, notation),
                  benennung |-> Get(answer.benennung, "")],
        validated_cache |->
          CachePut(caches.validated_cache, notation,
                   [notation |-> Get(answer.notation, notation),
                    benennung |-> Get(answer.benennung, "")]),
        invalid_cache |-> caches.invalid_cache,
        requested |-> TRUE]
  ELSE [node |-> NoNode,
        validated_cache |-> caches.validated_cache,
        invalid_cache |-> caches.invalid_cache \cup {notation},
        requested |-> TRUE]

\* validated_cache not consulted
RevalidatesValid(notation, caches, answer) ==
  IF notation \in caches.invalid_cache
  THEN [node |-> NoNode,
        validated_cache |-> caches.validated_cache,
        invalid_cache |-> caches.invalid_cache,
        requested |-> FALSE]
  ELSE Requested(notation, caches, answer)

\* invalid_cache not consulted
ForgetsInvalid(notation, caches, answer) ==
  IF notation \in DOMAIN caches.validated_cache
  THEN [node |-> caches.validated_cache[notation],
        validated_cache |-> caches.validated_cache,
        invalid_cache |-> caches.invalid_cache,
        requested |-> FALSE]
  ELSE Requested(notation, caches, answer)

\* an exception of the request recorded like an answer without a node
RecordsRaiseAsInvalid(notation, caches, answer) ==
  IF notation \in DOMAIN caches.validated_cache
  THEN [node |-> caches.validated_cache[notation],
        validated_cache |-> caches.validated_cache,
        invalid_cache |-> caches.invalid_cache,
        requested |-> FALSE]
  ELSE IF notation \in caches.invalid_cache
  THEN [node |-> NoNode,
        validated_cache |-> caches.validated_cache,
        invalid_cache |-> caches.invalid_cache,
        requested |-> FALSE]
  ELSE Requested(notation, caches, [answer EXCEPT !.kind = IF @ = "raise" THEN "not_ok" ELSE @])

validate_notation(notation, caches, answer) ==
  IF notation \in DOMAIN caches.validated_cache
  THEN [node |-> caches.validated_cache[notation],
        validated_cache |-> caches.validated_cache,
        invalid_cache |-> caches.invalid_cache,
        requested |-> FALSE]
  ELSE IF notation \in caches.invalid_cache
  THEN [node |-> NoNode,
        validated_cache |-> caches.validated_cache,
        invalid_cache |-> caches.invalid_cache,
        requested |-> FALSE]
  ELSE IF answer.kind = "raise"
  THEN [node |-> NoNode,
        validated_cache |-> caches.validated_cache,
        invalid_cache |-> caches.invalid_cache,
        requested |-> TRUE]
  ELSE IF answer.kind = "node"
  THEN LET validated_notation == [notation |-> Get(answer.notation, notation),
                                  benennung |-> Get(answer.benennung, "")]
       IN [node |-> validated_notation,
           validated_cache |-> CachePut(caches.validated_cache, notation,
                                        validated_notation),
           invalid_cache |-> caches.invalid_cache,
           requested |-> TRUE]
  ELSE [node |-> NoNode,
        validated_cache |-> caches.validated_cache,
        invalid_cache |-> caches.invalid_cache \cup {notation},
        requested |-> TRUE]

(***************************************************************************)
(* RVKNotationValidator.get_hierarchical_path.  A lookup is what the       *)
(* service answers to the two requests the method can make:                *)
(* [ancestors, node], ancestors a response whose nodes are the ancestor    *)
(* elements, node an answer to validate_notation's request.                *)
(* The result is [path, validated_cache, invalid_cache].                   *)
(***************************************************************************)
\* len(notation.split())
PathLevel(notation) == Len(Split(notation))

PathStep(notation, benennung) ==
  [notation |-> notation, benennung |-> benennung, level |-> PathLevel(notation)]

\* the ancestors alone, the node itself not appended
AncestorsOnly(notation, caches, lookup) ==
  [path |-> IF lookup.ancestors.ok
            THEN [i \in 1..Len(lookup.ancestors.nodes) |->
                    PathStep(Get(lookup.ancestors.nodes[i].notation, ""),
                             Get(lookup.ancestors.nodes[i].benennung, ""))]
            ELSE << >>,
   validated_cache |-> caches.validated_cache,
   invalid_cache |-> caches.invalid_cache]

get_hierarchical_path(notation, caches, lookup) ==
  IF ~lookup.ancestors.ok
  THEN [path |-> << >>,
        validated_cache |-> caches.validated_cache,
        invalid_cache |-> caches.invalid_cache]
  ELSE LET ancestors == lookup.ancestors.nodes
           path == [i \in 1..Len(ancestors) |->
                      PathStep(Get(ancestors[i].notation, ""),
                               Get(ancestors[i].benennung, ""))]
           validated == validate_notation(notation, caches, lookup.node)
           current_node == validated.node
           with_node == IF current_node # NoNode
                        THEN Append(path, PathStep(current_node.notation,
                                                   current_node.benennung))
                        ELSE path
       IN [path |-> SortedAscending(with_node,
                                    [i \in 1..Len(with_node) |-> with_node[i].level]),
           validated_cache |-> validated.validated_cache,
           invalid_cache |-> validated.invalid_cache]

\* RVKNotationValidator.format_hierarchical_path
format_hierarchical_path(path) ==
  LET shown == SelectSeq(path, LAMBDA level : level.notation # "" /\ level.benennung # "")
  IN Join([i \in 1..Len(shown) |->
             shown[i].notation \o " (" \o shown[i].benennung \o ")"], " → ")

\* (benennung + " " + " ".join(d.get('benennung', '') for d in path)).lower()
PathAndBenennungLower(benennung, path) ==
  Lower(benennung \o " " \o Join([i \in 1..Len(path) |-> path[i].benennung], " "))

\* REGIONAL_INDICATORS.get(region_level, [])
IndicatorsOf(region_level) ==
  LET hits == { k \in 1..Len(REGIONAL_INDICATORS) :
                  REGIONAL_INDICATORS[k].region = region_level }
  IN IF hits = {} THEN << >>
     ELSE REGIONAL_INDICATORS[CHOOSE k \in hits : TRUE].indicators

\* region_level in text or any(ind in text for ind in the region's indicators)
RegionIn(region_level, text) ==
  Contains(text, region_level) \/ AnyIn(IndicatorsOf(region_level), text)

\* the index (from 0) of the first region of the chain found in text, or -1
FirstRegion(chain, text) ==
  LET hits == { i \in 1..Len(chain) : RegionIn(chain[i], text) }
  IN IF hits = {} THEN -1
     ELSE (CHOOSE i \in hits : \A j \in hits : i <= j) - 1

\* the primary keyword in the label, or a related concept in label-and-path
KeywordMatch(primary_keyword, benennung, text, related_concepts) ==
  \/ Contains(Lower(benennung), Lower(primary_keyword))
  \/ \E c \in 1..Len(related_concepts) : Contains(text, Lower(related_concepts[c]))

(***************************************************************************)
(* search_children_endpoint_and_validate                                   *)
(*                                                                         *)
(* The call is search_children_endpoint_and_validate(args, st, remote):    *)
(*   args    notation, current_depth, max_depth, parent_relevance,         *)
(*           primary_keyword, regional_preferences                         *)
(*   st      what the call reads and mutates: seen_notations, the          *)
(*           validator's caches, the /children requests sent so far        *)
(*           (requests), and self.ai_analysis's relatedGermanConcepts      *)
(*   remote  the service's answers: children, the response to the          *)
(*           /children request, and lookups, lookups[i] answering          *)
(*           get_hierarchical_path for the i-th child element              *)
(* The result is st with children_results.                                 *)
(*                                                                         *)
(* Scores are Python floats.  They are counted here in thousandths:        *)
(* k * 0.7 + r * 0.3 is 700 k + 300 r, and 700 k + 30 r after r *= 0.1.    *)
(***************************************************************************)
\* an exploration three levels deep
ThreeLevels == 1 + 2

MAX_CHILD_EXPLORATION_DEPTH == 1

TOP_N_FOR_CHILD_EXPLORATION == 5

\* the number of characters of s from position from on that satisfy Test
RunLength(s, from, Test(_)) ==
  LET ends == { m \in 0..(Len(s) - from + 1) :
                  \A i \in from..(from + m - 1) : Test(Char(s, i)) }
  IN CHOOSE m \in ends : \A n \in ends : n <= m

\* re.match(r'([A-Z]+\s+\d+)', notation): the notation the request names
BaseNotation(notation) ==
  LET letters == RunLength(notation, 1, LAMBDA c : c \in AsciiUpperChars)
      blanks == RunLength(notation, letters + 1, IsSpaceChar)
      digits == RunLength(notation, letters + blanks + 1, IsDigitChar)
  IN IF letters >= 1 /\ blanks >= 1 /\ digits >= 1
     THEN Strip(SubSeq(notation, 1, letters + blanks + digits))
     ELSE Strip(notation)

\* for i, region_level in enumerate(['deutschland', 'usa', 'europa', 'global'])
ChildRegionalChain == << "deutschland", "usa", "europa", "global" >>

ChildRegionalScore(text, regional_preferences) ==
  LET i == FirstRegion(ChildRegionalChain, text)
  IN IF i = -1 THEN 0
     ELSE (50 - i * 5)
          + (IF ChildRegionalChain[i + 1] \in Range(regional_preferences) THEN 20 ELSE 0)

\* The double k * 0.7 + r * 0.3 lies just below the exact sum, an integer,
\* for these scores only (of the keyword scores 10, 15, ..., 100 and the
\* regional scores the chain can give), so that int() yields one less:
\* 90 * 0.7 = 62.99999999999999 and 85 * 0.7 + 50 * 0.1 * 0.3 = 60.99999999999999.
DoubleShortfall(child_keyword_score, child_regional_score, keyword_match) ==
  IF \/ child_keyword_score = 90 /\ child_regional_score = 0
     \/ child_keyword_score = 85 /\ child_regional_score = 50 /\ ~keyword_match
  THEN 1 ELSE 0

\* child_final_score = (child_keyword_score * 0.7) + (child_regional_score * 0.3),
\* after child_regional_score *= 0.1 without a keyword match; in thousandths
ChildCombinedScore(child_keyword_score, child_regional_score, keyword_match) ==
  700 * child_keyword_score
  + (IF keyword_match THEN 300 ELSE 30) * child_regional_score
  - DoubleShortfall(child_keyword_score, child_regional_score, keyword_match)

\* min_child_score_from_parent = parent_relevance * 0.6; in thousandths
MinChildScoreFromParent(parent_relevance) == 600 * parent_relevance

\* child_final_score = max(min_child_score_from_parent, child_final_score)
\* child_final_score = min(100, max(10, int(child_final_score)))
ChildFinalScore(parent_relevance, child_keyword_score, child_regional_score, keyword_match) ==
  LET floored == Max(MinChildScoreFromParent(parent_relevance),
                     ChildCombinedScore(child_keyword_score, child_regional_score,
                                        keyword_match))
  IN Min(100, Max(10, floored \div 1000))

\* The bonus statement reads found_regional_level_in_notation, a name the
\* function never binds: once primary_keyword_match_in_child is true the
\* read raises NameError; when it is false neither condition reads it.
ChildBonusRaises(primary_keyword_match_in_child) == primary_keyword_match_in_child

\* the dict appended to children_results
ChildResult(child, relevance, current_depth, hierarchical_path) ==
  [notation |-> child.notation,
   benennung |-> child.benennung,
   relevance |-> relevance,
   keyword |-> Absent,
   rvk_prefix_match |-> FALSE,
   combination_type |-> "child_exploration",
   depth |-> current_depth + 1,
   rvk_hierarchy_level |-> determine_rvk_hierarchy_level(child.notation),
   hierarchical_path |-> hierarchical_path,
   hauptgruppe_match |-> FALSE]

\* a taxonomy below the explored node: every node has one child, of
\* Untergruppe form, down to notations of MaxChainLen characters
MaxChainLen == 6

ChainChildren(notation) ==
  IF Len(notation) < MaxChainLen
  THEN Ok(<< Node(notation \o "A", "Soziologie") >>)
  ELSE Ok(<< >>)

LookupFailed == [ancestors |-> Failed, node |-> NodeAnswer("raise", Absent, Absent)]

\* what the service answers below a child: its chain, and no ancestors
RemoteBelow(child_notation) ==
  LET children == ChainChildren(BaseNotation(child_notation))
  IN [children |-> children,
      lookups |-> [i \in 1..Len(children.nodes) |-> LookupFailed]]

RECURSIVE search_children_endpoint_and_validate(_, _, _)
RECURSIVE ChildLoop(_, _, _, _)

\* the loop over child_elements from the i-th on; leaving it by an
\* exception returns what was collected
ChildLoop(i, acc, args, remote) ==
  IF i > Len(remote.children.nodes) THEN acc
  ELSE LET child == remote.children.nodes[i]
       IN IF Falsy(child.notation) \/ child.notation \in acc.seen_notations
          THEN ChildLoop(i + 1, acc, args, remote)
          ELSE LET looked == get_hierarchical_path(child.notation, acc, remote.lookups[i])
                   seen == [acc EXCEPT !.seen_notations = @ \cup {child.notation},
                                       !.validated_cache = looked.validated_cache,
                                       !.invalid_cache = looked.invalid_cache]
                   text == PathAndBenennungLower(child.benennung, looked.path)
                   child_keyword_score ==
                     calculate_relevance_for_description(<< args.primary_keyword >>,
                                                         child.benennung)
                   child_regional_score ==
                     ChildRegionalScore(text, args.regional_preferences)
                   keyword_match ==
                     KeywordMatch(args.primary_keyword, child.benennung, text,
                                  acc.related_concepts)
                   child_final_score ==
                     ChildFinalScore(args.parent_relevance, child_keyword_score,
                                     child_regional_score, keyword_match)
                   appended ==
                     [seen EXCEPT !.children_results =
                        Append(@, ChildResult(child, child_final_score,
                                              args.current_depth, looked.path))]
                   below ==
                     search_children_endpoint_and_validate(
                       [args EXCEPT !.notation = child.notation,
                                    !.current_depth = args.current_depth + 1,
                                    !.parent_relevance = child_final_score],
                       [appended EXCEPT !.children_results = << >>],
                       RemoteBelow(child.notation))
               IN IF child.benennung = Absent
                  THEN seen    \* None + " " raises TypeError
                  ELSE IF ChildBonusRaises(keyword_match)
                  THEN seen
                  ELSE IF /\ args.current_depth + 1 < args.max_depth
                          /\ determine_rvk_hierarchy_level(child.notation)
                               \in {"Hauptgruppe", "Untergruppe"}
                  THEN ChildLoop(i + 1,
                                 [below EXCEPT !.children_results =
                                    appended.children_results \o @],
                                 args, remote)
                  ELSE ChildLoop(i + 1, appended, args, remote)

search_children_endpoint_and_validate(args, st, remote) ==
  IF args.current_depth >= args.max_depth
  THEN [st EXCEPT !.children_results = << >>]
  ELSE LET sent == [st EXCEPT !.children_results = << >>,
                              !.requests = Append(@, BaseNotation(args.notation))]
       IN IF ~remote.children.ok THEN sent
          ELSE ChildLoop(1, sent, args, remote)

(***************************************************************************)
(* search_with_hierarchical_priority_logic: the search terms, the          *)
(* rescoring of a collected result and the final selection.                *)
(*                                                                         *)
(* final_score is a Python float; it is counted here in ten-thousandths:   *)
(* h * 0.3 + r * 0.25 + k * 0.45 is 3000 h + 2500 r + 4500 k, and          *)
(* 1500 h + 125 r + 4500 k after r *= 0.05 and h *= 0.5.  For the scores   *)
(* the code can produce the double truncates to the same integer as the    *)
(* exact sum.                                                              *)
(***************************************************************************)
regional_scoring_chain ==
  << "deutschland", "usa", "frankreich", "großbritannien", "italien", "spanien",
     "russland", "china", "japan", "brasilien",
     "europa", "afrika", "asien", "global" >>

\* set([term.strip() for term in all_search_terms if term.strip()]); list()
\* of this set enumerates it in an order the code does not fix
AllSearchTerms(primary_keyword, suggested_search_terms, regional_preferences) ==
  LET all_search_terms ==
        {primary_keyword} \cup Range(suggested_search_terms)
        \cup { primary_keyword \o " " \o country : country \in Range(regional_preferences) }
  IN { Strip(term) : term \in { t \in all_search_terms : Strip(t) # "" } }

\* the sequences that enumerate the set S once
Enumerations(S) ==
  { order \in [1..Cardinality(S) -> S] : Range(order) = S }

\* notation_hauptgruppe_prefix
HauptgruppePrefix(notation) ==
  IF notation = "" THEN "" ELSE Upper(Char(notation, 1))

HauptgruppeScore(notation, priority_hauptgruppen) ==
  IF HauptgruppePrefix(notation) \in Range(priority_hauptgruppen) THEN 100
  ELSE IF HauptgruppePrefix(notation) \in {"M", "L"} THEN 80
  ELSE 20

\* the preference bonus left out
RegionalScoreUnpreferred(text, regional_preferences) ==
  IF FirstRegion(regional_scoring_chain, text) = -1 THEN 0
  ELSE 50 - (FirstRegion(regional_scoring_chain, text) * 2) + 10

\* five points a step, as the exploration of children counts
RegionalScoreFiveAStep(text, regional_preferences) ==
  IF FirstRegion(regional_scoring_chain, text) = -1 THEN 0
  ELSE 50 - (FirstRegion(regional_scoring_chain, text) * 5)
       + (IF regional_scoring_chain[FirstRegion(regional_scoring_chain, text) + 1]
               \in Range(regional_preferences)
          THEN 40 ELSE 10)

RegionalScore(text, regional_preferences) ==
  LET i == FirstRegion(regional_scoring_chain, text)
      regional_score_base == 50 - (i * 2)
  IN IF i = -1 THEN 0
     ELSE IF regional_scoring_chain[i + 1] \in Range(regional_preferences)
     THEN regional_score_base + 40
     ELSE regional_score_base + 10

\* (hauptgruppe_score * 0.3) + (regional_score * 0.25) + (keyword_score * 0.45),
\* in ten-thousandths
WeightedScore(hauptgruppe_score, regional_score, keyword_score, keyword_match) ==
  IF keyword_match
  THEN 3000 * hauptgruppe_score + 2500 * regional_score + 4500 * keyword_score
  ELSE 1500 * hauptgruppe_score + 125 * regional_score + 4500 * keyword_score

\* the score as computed, not clamped
NotClamped(final_score) == final_score

\* final_score = max(10, min(100, int(final_score)))
ClampFinalScore(final_score) == Max(10, Min(100, final_score))

\* if keyword_score > 70 and primary_keyword_match_in_rvk
KeywordBonus(final_score, keyword_score, keyword_match) ==
  IF keyword_score > 70 /\ keyword_match
  THEN Min(100, final_score + 15)
  ELSE final_score

\* the score without the bonus for a strong keyword
FinalScoreWithoutBonus(hauptgruppe_score, regional_score, keyword_score, keyword_match) ==
  ClampFinalScore(WeightedScore(hauptgruppe_score, regional_score, keyword_score,
                                keyword_match) \div 10000)

FinalScore(hauptgruppe_score, regional_score, keyword_score, keyword_match) ==
  KeywordBonus(
    ClampFinalScore(WeightedScore(hauptgruppe_score, regional_score, keyword_score,
                                  keyword_match) \div 10000),
    keyword_score, keyword_match)

\* one pass of the loop "for result in all_results": the result as updated
Rescored(result, hierarchical_path, derived, related_concepts) ==
  LET text == PathAndBenennungLower(result.benennung, hierarchical_path)
      keyword_score ==
        calculate_relevance_for_description(<< derived.primary_keyword >>,
                                            result.benennung)
      keyword_match ==
        KeywordMatch(derived.primary_keyword, result.benennung, text, related_concepts)
  IN [result EXCEPT
        !.relevance =
          FinalScore(HauptgruppeScore(result.notation, derived.priority_hauptgruppen),
                     RegionalScore(text, derived.regional_preferences),
                     keyword_score, keyword_match),
        !.combination_type = Get(@, "hierarchical_priority"),
        !.rvk_hierarchy_level = determine_rvk_hierarchy_level(result.notation),
        !.hierarchical_path = hierarchical_path,
        !.hauptgruppe_match =
          HauptgruppePrefix(result.notation) \in Range(derived.priority_hauptgruppen)]

\* return final_results_with_scores[:12], and suggestions[:12]
TOP_RESULTS == 12

\* final_results_with_scores.sort(...); return final_results_with_scores[:12]
SelectTop(rescored) ==
  Take(SortByRelevance(rescored), TOP_RESULTS)

\* notation_level in ["Hauptgruppe", "Untergruppe"] or an explicit range
IsBroadCategory(notation) ==
  \/ determine_rvk_hierarchy_level(notation) \in {"Hauptgruppe", "Untergruppe"}
  \/ (Contains(notation, " - ") /\ Len(Split(notation)) > 1)

\* the result as the search returned it
NotTagged(result, hierarchical_path) == result

\* the results the emergency fallback appends: result.update({...})
EmergencyResult(result, hierarchical_path) ==
  [result EXCEPT
     !.relevance = 25,
     !.combination_type = "emergency",
     !.hierarchical_path = hierarchical_path,
     !.rvk_hierarchy_level = determine_rvk_hierarchy_level(result.notation),
     !.hauptgruppe_match = FALSE]

emergency_terms == << "gesellschaft", "wissenschaft", "forschung" >>

(***************************************************************************)
(* Specifications.  A function is called on its own by drawing its         *)
(* arguments in the initial state and applying it in one step; the run's   *)
(* variables rest meanwhile.                                               *)
(***************************************************************************)
call_vars == << fn, input, output, returned >>

run_vars ==
  << pc, rvk_enabled, ai_analysis, validated_cache, invalid_cache, rvk_combinations,
     signals, nodes_responses, initial_potential_results, all_results, seen_notations,
     cursor, children_found, emergency_results, final_results_with_scores,
     suggestions >>

vars == << call_vars, run_vars >>

NoSignals ==
  [priority_hauptgruppen |-> << >>, primary_keyword |-> "", regional_preferences |-> << >>]

NoCombinations ==
  [hauptgruppe_context |-> << >>, untergruppe_context |-> << >>,
   feingruppe_context |-> << >>, regional_schluessel |-> << >>,
   form_schluessel |-> << >>, epochen_schluessel |-> << >>]

\* an analysis without any key
NoAnalysis ==
  [title |-> Absent, abstract |-> Absent, mainTopic |-> Absent, subjects |-> << >>,
   relatedGermanConcepts |-> << >>, primaryKeyword |-> Absent,
   suggestedSearchTerms |-> << >>]

\* no /nodes search made yet
NoSearch == [search_terms |-> << >>, responses |-> << >>]

\* RVKNotationValidator.__init__
NoCache == << >>

RunAtRest ==
  /\ pc = "rest"
  /\ rvk_enabled = FALSE
  /\ ai_analysis = NoAnalysis
  /\ validated_cache = NoCache
  /\ invalid_cache = {}
  /\ rvk_combinations = NoCombinations
  /\ signals = NoSignals
  /\ nodes_responses = NoSearch
  /\ initial_potential_results = << >>
  /\ all_results = << >>
  /\ seen_notations = {}
  /\ cursor = 0
  /\ children_found = << >>
  /\ emergency_results = << >>
  /\ final_results_with_scores = << >>
  /\ suggestions = << >>

Called(name) == fn = name /\ returned

InitCall(name, inputs) ==
  /\ fn = name
  /\ input \in inputs
  /\ output = Absent
  /\ returned = FALSE
  /\ RunAtRest

(***************************************************************************)
(* calculate_relevance_for_description on keyword lists and descriptions   *)
(***************************************************************************)
MaxKeywords == 2

ScoreKeywords == {"Migration", "soziologie", "", "Flucht und Vertreibung"}

ScoreDescriptions ==
  {"", "Soziologie", "Gesellschaft", "Migration, Zuwanderung, Flucht",
   "Zuwanderung Einwanderung Auswanderung Flucht Vertreibung Migration"}

InitScore ==
  InitCall("calculate_relevance_for_description",
           [keywords : SeqsUpTo(ScoreKeywords, MaxKeywords),
            description : ScoreDescriptions])

CallScore ==
  /\ fn = "calculate_relevance_for_description"
  /\ ~returned
  /\ output' =
       calculate_relevance_for_description(input.keywords, input.description)
  /\ returned' = TRUE
  /\ UNCHANGED << fn, input >>
  /\ UNCHANGED run_vars

NextScore == CallScore

SpecScore == InitScore /\ [][NextScore]_vars

\* C3: calculate_relevance_for_description returns an integer in [10,100]
\* for every keyword list and description, and exactly 10 when the keyword
\* list is empty or the description is empty.
ScoreInRangeAndTenWhenEmpty ==
  Called("calculate_relevance_for_description") =>
    /\ output \in 10..100
    /\ (input.keywords = << >> \/ input.description = "") => output = 10

\* an empty keyword list scored against a description that is not empty
ScoredEmptyKeywordList ==
  /\ Called("calculate_relevance_for_description")
  /\ input.keywords = << >>
  /\ input.description = "Migration, Zuwanderung, Flucht"
  /\ output = 10

(***************************************************************************)
(* determine_rvk_hierarchy_level on notation strings                       *)
(***************************************************************************)
MaxNotationLen == 5

LevelAlphabet == {"M", "8", " ", "-"}

RECURSIVE StringsUpTo(_, _)
StringsUpTo(alphabet, n) ==
  IF n = 0 THEN {""}
  ELSE {""} \cup { c \o s : c \in alphabet, s \in StringsUpTo(alphabet, n - 1) }

InitLevel ==
  InitCall("determine_rvk_hierarchy_level",
           StringsUpTo(LevelAlphabet, MaxNotationLen) \cup {"MN 8300", "mß", "Ä", "M\t8"})

CallLevel ==
  /\ fn = "determine_rvk_hierarchy_level"
  /\ ~returned
  /\ output' =
       determine_rvk_hierarchy_level(input)
  /\ returned' = TRUE
  /\ UNCHANGED << fn, input >>
  /\ UNCHANGED run_vars

NextLevel == CallLevel

SpecLevel == InitLevel /\ [][NextLevel]_vars

\* C8: determine_rvk_hierarchy_level returns, for every notation string
\* (empty, blank, or with characters that are neither letters nor digits),
\* one of the five levels Hauptgruppe, Untergruppe, Feingruppe,
\* Feingruppe + Schlüssel, Unbekannt; the level is a function of the string.
LevelIsOneOfFive ==
  Called("determine_rvk_hierarchy_level") =>
    /\ output \in RVKLevels
    /\ output = determine_rvk_hierarchy_level(input)

\* a blank notation, and one with a hyphen, classified
ClassifiedBlankNotation ==
  /\ Called("determine_rvk_hierarchy_level")
  /\ input = "  "
  /\ output = "Unbekannt"

(***************************************************************************)
(* search_nodes_endpoint_and_validate with a notation-prefix filter        *)
(***************************************************************************)
MaxFilterHits == 1

FilterTerms == << "migration", "geschichte" >>

PrefixFilters ==
  { << >>, << "L", "M" >>, << "M" >>, << "m" >>, << " " >>, << "", "N" >>, << " L " >> }

FilterNodes ==
  { Node("MN", "Migration"), Node("NQ", "Deutsche Geschichte"),
    Node("LB", "Ethnologie"), Node("mn 1", "Migration") }

FilterResponses == {Failed} \cup { Ok(nodes) : nodes \in SeqsUpTo(FilterNodes, MaxFilterHits) }

InitFilter ==
  InitCall("search_nodes_endpoint_and_validate",
           [rvk_notation_prefixes : PrefixFilters,
            responses : [1..Len(FilterTerms) -> FilterResponses]])

CallFilter ==
  /\ fn = "search_nodes_endpoint_and_validate"
  /\ ~returned
  /\ output' =
       search_nodes_endpoint_and_validate(FilterTerms, input.rvk_notation_prefixes,
       input.responses)
  /\ returned' = TRUE
  /\ UNCHANGED << fn, input >>
  /\ UNCHANGED run_vars

NextFilter == CallFilter

SpecFilter == InitFilter /\ [][NextFilter]_vars

\* whether the service returned, for some term, a node whose notation
\* begins with start
Returned(responses, start) ==
  \E t \in DOMAIN responses : \E n \in DOMAIN responses[t].nodes :
    responses[t].ok /\ StartsWith(responses[t].nodes[n].notation, start)

TitlesOf(indicators) ==
  { HAUPTGRUPPE_MAPPING[g].keywords[1] \o " in " \o indicator :
      g \in 1..Len(HAUPTGRUPPE_MAPPING), indicator \in indicators }

ExtractTitles ==
  {"Migration und Integration in Chemnitz"}
  \cup TitlesOf({"chemnitz", "paris", "weltweit"})

ExtractKeywords == {"Migration", "Migration + Integration", "", Absent}

ExtractSubjects == { << >>, << "Integration" >> }

InitExtract ==
  InitCall("extract_rvk_hierarchical_combinations",
           { [NoAnalysis EXCEPT !.title = title, !.primaryKeyword = keyword,
                                !.subjects = subjects] :
               title \in ExtractTitles, keyword \in ExtractKeywords,
               subjects \in ExtractSubjects })

CallExtract ==
  /\ fn = "extract_rvk_hierarchical_combinations"
  /\ ~returned
  /\ output' = DeriveSignals(extract_rvk_hierarchical_combinations(input), input)
  /\ returned' = TRUE
  /\ UNCHANGED << fn, input >>
  /\ UNCHANGED run_vars

NextExtract == CallExtract

SpecExtract == InitExtract /\ [][NextExtract]_vars

\* the Hauptgruppen with a keyword in the text, the regions with an indicator
GroupsIn(text) ==
  { HAUPTGRUPPE_MAPPING[g].hauptgruppe :
      g \in { h \in 1..Len(HAUPTGRUPPE_MAPPING) :
                AnyIn(HAUPTGRUPPE_MAPPING[h].keywords, text) } }

RegionsIn(text) ==
  { REGIONAL_INDICATORS[r].region :
      r \in { k \in 1..Len(REGIONAL_INDICATORS) :
                AnyIn(REGIONAL_INDICATORS[k].indicators, text) } }

ParentRelevances == 10..100

ChildNodes ==
  { Node("MN 1000", "Allgemeines"),
    Node("MN 2000", "Flucht und Vertreibung"),
    Node("MN 8300", "Migration, Zuwanderung, Flucht"),
    Node("MN 3000", Absent) }

LookupGermany ==
  [ancestors |-> Ok(<< Node("MN", "Soziologie in Deutschland") >>),
   node |-> NodeAnswer("node", Absent, "Allgemeines")]

LookupUnknown ==
  [ancestors |-> Ok(<< Node("M", "Soziologie") >>),
   node |-> NodeAnswer("not_ok", Absent, Absent)]

ChildLookups == { LookupFailed, LookupGermany, LookupUnknown }

InitChildren ==
  InitCall("search_children_endpoint_and_validate",
           [parent_relevance : ParentRelevances, child : ChildNodes,
            lookup : ChildLookups])

CallChildren ==
  /\ fn = "search_children_endpoint_and_validate"
  /\ ~returned
  /\ output' =
       search_children_endpoint_and_validate(
         [notation |-> "MN", current_depth |-> 0,
          max_depth |-> MAX_CHILD_EXPLORATION_DEPTH,
          parent_relevance |-> input.parent_relevance,
          primary_keyword |-> "migration",
          regional_preferences |-> << "deutschland" >>],
         [children_results |-> << >>, seen_notations |-> {"MN"},
          validated_cache |-> NoCache, invalid_cache |-> {}, requests |-> << >>,
          related_concepts |-> << "Zuwanderung" >>],
         [children |-> Ok(<< input.child >>), lookups |-> << input.lookup >>])
  /\ returned' = TRUE
  /\ UNCHANGED << fn, input >>
  /\ UNCHANGED run_vars

NextChildren == CallChildren

SpecChildren == InitChildren /\ [][NextChildren]_vars

MaxCandidates == 13

SelectRelevances == {10, 55}

\* a rescored result for the i-th collected notation
Candidate(i, relevance) ==
  [notation |-> "M" \o Char(AsciiUpper, i), benennung |-> "Soziologie",
   relevance |-> relevance]

InitSelect ==
  InitCall("final_selection",
           UNION { { [i \in 1..n |-> Candidate(i, relevances[i])] :
                       relevances \in [1..n -> SelectRelevances] } :
                   n \in 0..MaxCandidates })

CallSelect ==
  /\ fn = "final_selection"
  /\ ~returned
  /\ output' = SelectTop(input)
  /\ returned' = TRUE
  /\ UNCHANGED << fn, input >>
  /\ UNCHANGED run_vars

NextSelect == CallSelect

SpecSelect == InitSelect /\ [][NextSelect]_vars

\* the place of a result in the order of collection
CollectedAt(collected, result) ==
  CHOOSE i \in DOMAIN collected : collected[i].notation = result.notation

\* C7: the returned list has at most 12 entries, all of them collected
\* results, in non-increasing order of final relevance, results of equal
\* relevance in the order they were collected, and no result left out has
\* a strictly higher relevance than a returned one.
SelectionIsTopTwelveInStableOrder ==
  Called("final_selection") =>
    /\ Len(output) <= 12
    /\ \A o \in DOMAIN output : \E c \in DOMAIN input : input[c] = output[o]
    /\ \A i, j \in DOMAIN output :
         i < j =>
           /\ output[i].relevance >= output[j].relevance
           /\ output[i].relevance = output[j].relevance =>
                CollectedAt(input, output[i]) < CollectedAt(input, output[j])
    /\ \A c \in DOMAIN input :
         (\A o \in DOMAIN output : output[o].notation # input[c].notation) =>
           \A o \in DOMAIN output : input[c].relevance <= output[o].relevance

\* thirteen results, collected in an order that is not the order of their
\* relevance, twelve of them returned with two of equal relevance
SelectedTwelveOfThirteen ==
  /\ Called("final_selection")
  /\ Len(input) = 13
  /\ Len(output) = 12
  /\ \E i \in 1..12 : input[i].relevance < input[i + 1].relevance
  /\ \E i \in 1..11 : output[i].relevance = output[i + 1].relevance

(***************************************************************************)
(* A run of RVKClassifierAI.analyze_pica_data_with_rvk_hierarchy from the  *)
(* point where the analysis is at hand.  The loops of the search take one  *)
(* step per iteration; every answer of the service is drawn when the       *)
(* request is made.                                                        *)
(***************************************************************************)
MaxChildren == 1

AnalysisChemnitz ==
  [NoAnalysis EXCEPT !.title = "Migration in Chemnitz",
                     !.primaryKeyword = "Migration",
                     !.relatedGermanConcepts = << "Zuwanderung" >>]

Analyses == { NoAnalysis, AnalysisChemnitz }

\* the answers to a /nodes request of the priority search
NodesResponses ==
  { Failed, Ok(<< >>),
    Ok(<< Node("MN", "Soziologie") >>),
    Ok(<< Node("MN", "Migration, Zuwanderung, Flucht") >>),
    Ok(<< Node("NQ", "Deutsche Geschichte") >>),
    Ok(<< Node("MN 8300", "Migration, Zuwanderung, Flucht") >>),
    Ok(<< Node("MN", "Soziologie"), Node("NQ", "Deutsche Geschichte") >>) }

\* the answers to a /nodes request of the emergency search
EmergencyResponses ==
  { Failed,
    Ok(<< Node("MS", "") >>),
    Ok(<< Node("MN", "Soziologie") >>),
    Ok(<< Node("MN", "Soziologie"), Node("NQ", "Deutsche Geschichte") >>) }

\* the node elements of the /children answers
RunChildNodes ==
  { Node("MNA", "Allgemeine Soziologie"),
    Node("MN 8300", "Migration, Zuwanderung, Flucht") }

ChildrenResponses ==
  {Failed} \cup { Ok(nodes) : nodes \in SeqsUpTo(RunChildNodes, MaxChildren) }

RunLookups == { LookupFailed, LookupGermany }

InitRun ==
  /\ fn = "analyze_pica_data_with_rvk_hierarchy"
  /\ input = Absent
  /\ output = Absent
  /\ returned = FALSE
  /\ pc = "start"
  /\ rvk_enabled \in BOOLEAN
  /\ ai_analysis \in Analyses
  /\ validated_cache = NoCache
  /\ invalid_cache = {}
  /\ rvk_combinations = NoCombinations
  /\ signals = NoSignals
  /\ nodes_responses = NoSearch
  /\ initial_potential_results = << >>
  /\ all_results = << >>
  /\ seen_notations = {}
  /\ cursor = 0
  /\ children_found = << >>
  /\ emergency_results = << >>
  /\ final_results_with_scores = << >>
  /\ suggestions = << >>

caches == [validated_cache |-> validated_cache, invalid_cache |-> invalid_cache]

\* the loop "for result in ...: if result['notation'] not in seen_notations":
\* acc is [all_results, seen_notations]
RECURSIVE AddUnseen(_, _)
AddUnseen(acc, results) ==
  IF results = << >> THEN acc
  ELSE IF Head(results).notation \in acc.seen_notations
  THEN AddUnseen(acc, Tail(results))
  ELSE AddUnseen([all_results |-> Append(acc.all_results, Head(results)),
                  seen_notations |-> acc.seen_notations \cup {Head(results).notation}],
                 Tail(results))

\* result.update(...): the dict is the one the other lists hold
Updated(results, result) ==
  [i \in DOMAIN results |->
     IF results[i].notation = result.notation THEN result ELSE results[i]]

\* if not config['rvk']['enabled']: suggestions stays empty
Disabled ==
  /\ pc = "start"
  /\ ~rvk_enabled
  /\ pc' = "return"
  /\ UNCHANGED << call_vars, rvk_enabled, ai_analysis, validated_cache, invalid_cache,
                  rvk_combinations, signals, nodes_responses, initial_potential_results,
                  all_results, seen_notations, cursor, children_found, emergency_results,
                  final_results_with_scores, suggestions >>

\* rvk_combinations = extract_rvk_hierarchical_combinations(analyzed_data)
Extract ==
  /\ pc = "start"
  /\ rvk_enabled
  /\ rvk_combinations' = extract_rvk_hierarchical_combinations(ai_analysis)
  /\ pc' = "search"
  /\ UNCHANGED << call_vars, rvk_enabled, ai_analysis, validated_cache, invalid_cache,
                  signals, nodes_responses, initial_potential_results, all_results,
                  seen_notations, cursor, children_found, emergency_results,
                  final_results_with_scores, suggestions >>

\* search_with_hierarchical_priority_logic up to the sort before the
\* exploration: the signals, the search terms, the /nodes search
SearchNodes ==
  /\ pc = "search"
  /\ LET derived == DeriveSignals(rvk_combinations, ai_analysis)
         terms == AllSearchTerms(derived.primary_keyword,
                                 ai_analysis.suggestedSearchTerms,
                                 derived.regional_preferences)
     IN \E all_search_terms \in Enumerations(terms) :
        \E responses \in [1..Len(all_search_terms) -> NodesResponses] :
          LET found == search_nodes_endpoint_and_validate(all_search_terms, << >>,
                                                          responses)
              added == AddUnseen([all_results |-> << >>, seen_notations |-> {}], found)
          IN /\ signals' = derived
             /\ nodes_responses' = [search_terms |-> all_search_terms,
                                    responses |-> responses]
             /\ all_results' = added.all_results
             /\ seen_notations' = added.seen_notations
             /\ initial_potential_results' = SortByRelevance(found)
  /\ cursor' = 1
  /\ pc' = "explore"
  /\ UNCHANGED << call_vars, rvk_enabled, ai_analysis, validated_cache, invalid_cache,
                  rvk_combinations, children_found, emergency_results,
                  final_results_with_scores, suggestions >>

\* initial_potential_results[:TOP_N_FOR_CHILD_EXPLORATION]
TopResults == Take(initial_potential_results, TOP_N_FOR_CHILD_EXPLORATION)

\* all_potential_results.extend(child_results); the loop that follows adds
\* what seen_notations does not hold yet
StoreExplored(explored, added) ==
  /\ children_found' = children_found \o explored.children_results
  /\ validated_cache' = explored.validated_cache
  /\ invalid_cache' = explored.invalid_cache
  /\ all_results' = added.all_results
  /\ seen_notations' = added.seen_notations

MergeExplored(explored) ==
  StoreExplored(explored,
                AddUnseen([all_results |-> all_results,
                           seen_notations |-> explored.seen_notations],
                          explored.children_results))

\* one pass of the loop over the top results, for a broad category
ExploreTop ==
  /\ pc = "explore"
  /\ cursor <= Len(TopResults)
  /\ IsBroadCategory(TopResults[cursor].notation)
  /\ \E children \in ChildrenResponses :
     \E lookups \in [1..Len(children.nodes) -> RunLookups] :
       MergeExplored(
         search_children_endpoint_and_validate(
           [notation |-> TopResults[cursor].notation, current_depth |-> 0,
            max_depth |-> MAX_CHILD_EXPLORATION_DEPTH,
            parent_relevance |-> TopResults[cursor].relevance,
            primary_keyword |-> signals.primary_keyword,
            regional_preferences |-> signals.regional_preferences],
           [children_results |-> << >>, seen_notations |-> seen_notations,
            validated_cache |-> validated_cache, invalid_cache |-> invalid_cache,
            requests |-> << >>,
            related_concepts |-> ai_analysis.relatedGermanConcepts],
           [children |-> children, lookups |-> lookups]))
  /\ cursor' = cursor + 1
  /\ UNCHANGED << call_vars, pc, rvk_enabled, ai_analysis, rvk_combinations, signals,
                  nodes_responses, initial_potential_results, emergency_results,
                  final_results_with_scores, suggestions >>

\* one pass of the loop over the top results, for any other result
SkipTop ==
  /\ pc = "explore"
  /\ cursor <= Len(TopResults)
  /\ ~IsBroadCategory(TopResults[cursor].notation)
  /\ cursor' = cursor + 1
  /\ UNCHANGED << call_vars, pc, rvk_enabled, ai_analysis, validated_cache,
                  invalid_cache, rvk_combinations, signals, nodes_responses,
                  initial_potential_results, all_results, seen_notations,
                  children_found, emergency_results, final_results_with_scores,
                  suggestions >>

\* the loop over the top results is through
Explored ==
  /\ pc = "explore"
  /\ cursor > Len(TopResults)
  /\ cursor' = 1
  /\ pc' = "rescore"
  /\ UNCHANGED << call_vars, rvk_enabled, ai_analysis, validated_cache, invalid_cache,
                  rvk_combinations, signals, nodes_responses, initial_potential_results,
                  all_results, seen_notations, children_found, emergency_results,
                  final_results_with_scores, suggestions >>

\* one pass of the loop "for result in all_results"
Rescore ==
  /\ pc = "rescore"
  /\ cursor <= Len(all_results)
  /\ \E lookup \in RunLookups :
       LET result == all_results[cursor]
           looked == get_hierarchical_path(result.notation, caches, lookup)
           rescored == Rescored(result, looked.path, signals,
                                ai_analysis.relatedGermanConcepts)
       IN /\ validated_cache' = looked.validated_cache
          /\ invalid_cache' = looked.invalid_cache
          /\ all_results' = Updated(all_results, rescored)
          /\ initial_potential_results' = Updated(initial_potential_results, rescored)
          /\ final_results_with_scores' = Append(final_results_with_scores, rescored)
  /\ cursor' = cursor + 1
  /\ UNCHANGED << call_vars, pc, rvk_enabled, ai_analysis, rvk_combinations, signals,
                  nodes_responses, seen_notations, children_found, emergency_results,
                  suggestions >>

\* the sort, return final_results_with_scores[:12], and "if not suggestions"
Select ==
  /\ pc = "rescore"
  /\ cursor > Len(all_results)
  /\ final_results_with_scores' = SortByRelevance(final_results_with_scores)
  /\ suggestions' = SelectTop(final_results_with_scores)
  /\ pc' = IF suggestions' = << >> THEN "emergency" ELSE "return"
  /\ UNCHANGED << call_vars, rvk_enabled, ai_analysis, validated_cache, invalid_cache,
                  rvk_combinations, signals, nodes_responses, initial_potential_results,
                  all_results, seen_notations, cursor, children_found,
                  emergency_results >>

\* emergency_results = search_nodes_endpoint_and_validate(emergency_terms)
EmergencySearch ==
  /\ pc = "emergency"
  /\ \E responses \in [1..Len(emergency_terms) -> EmergencyResponses] :
       /\ emergency_results' =
            search_nodes_endpoint_and_validate(emergency_terms, << >>, responses)
       /\ nodes_responses' = [search_terms |-> emergency_terms, responses |-> responses]
  /\ cursor' = 1
  /\ pc' = "annotate"
  /\ UNCHANGED << call_vars, rvk_enabled, ai_analysis, validated_cache, invalid_cache,
                  rvk_combinations, signals, initial_potential_results, all_results,
                  seen_notations, children_found, final_results_with_scores,
                  suggestions >>

\* one pass of the loop "for result in emergency_results"; the path is
\* fetched twice, for hierarchical_path and for path_display
Annotate ==
  /\ pc = "annotate"
  /\ cursor <= Len(emergency_results)
  /\ \E first \in RunLookups, second \in RunLookups :
       LET result == emergency_results[cursor]
           looked == get_hierarchical_path(result.notation, caches, first)
           again == get_hierarchical_path(result.notation, looked, second)
           tagged == EmergencyResult(result, looked.path)
       IN /\ validated_cache' = again.validated_cache
          /\ invalid_cache' = again.invalid_cache
          /\ emergency_results' = Updated(emergency_results, tagged)
          /\ suggestions' = Append(suggestions, tagged)
  /\ cursor' = cursor + 1
  /\ UNCHANGED << call_vars, pc, rvk_enabled, ai_analysis, rvk_combinations, signals,
                  nodes_responses, initial_potential_results, all_results,
                  seen_notations, children_found, final_results_with_scores >>

\* the loop over emergency_results is through
Annotated ==
  /\ pc = "annotate"
  /\ cursor > Len(emergency_results)
  /\ pc' = "return"
  /\ UNCHANGED << call_vars, rvk_enabled, ai_analysis, validated_cache, invalid_cache,
                  rvk_combinations, signals, nodes_responses, initial_potential_results,
                  all_results, seen_notations, cursor, children_found,
                  emergency_results, final_results_with_scores, suggestions >>

\* return {..., 'suggestions': suggestions[:12], ...}
ReturnSuggestions ==
  /\ pc = "return"
  /\ output' = Take(suggestions, TOP_RESULTS)
  /\ returned' = TRUE
  /\ pc' = "done"
  /\ UNCHANGED << fn, input, rvk_enabled, ai_analysis, validated_cache, invalid_cache,
                  rvk_combinations, signals, nodes_responses, initial_potential_results,
                  all_results, seen_notations, cursor, children_found,
                  emergency_results, final_results_with_scores, suggestions >>

Next ==
  \/ Disabled
  \/ Extract
  \/ SearchNodes
  \/ ExploreTop
  \/ SkipTop
  \/ Explored
  \/ Rescore
  \/ Select
  \/ EmergencySearch
  \/ Annotate
  \/ Annotated
  \/ ReturnSuggestions

Spec == InitRun /\ [][Next]_vars

(***************************************************************************)
(* Properties of a run                                                     *)
(***************************************************************************)
NoNotationTwice(results) ==
  \A i, j \in DOMAIN results : i # j => results[i].notation # results[j].notation

\* whether two terms of the latest /nodes search were answered with a
\* labelled node of the same notation
SameNotationForTwoTerms ==
  \E s, t \in DOMAIN nodes_responses.responses :
    /\ s # t
    /\ \E m \in DOMAIN nodes_responses.responses[s].nodes :
       \E n \in DOMAIN nodes_responses.responses[t].nodes :
         /\ nodes_responses.responses[s].nodes[m].notation
              = nodes_responses.responses[t].nodes[n].notation
         /\ ~Falsy(nodes_responses.responses[s].nodes[m].benennung)
         /\ ~Falsy(nodes_responses.responses[t].nodes[n].benennung)

\* C1: whatever the service answers, the list that
\* search_with_hierarchical_priority_logic returns, and the emergency list
\* that takes its place, hold no two entries with the same notation.
ReturnedListHasNoNotationTwice ==
  /\ NoNotationTwice(suggestions)
  /\ returned => NoNotationTwice(output)

\* a priority search returned its list after two terms gave the same notation
ReturnedAfterSameNotationTwice ==
  /\ returned
  /\ SameNotationForTwoTerms
  /\ final_results_with_scores # << >>
  /\ output # << >>

\* C2: every entry of the list that analyze_pica_data_with_rvk_hierarchy
\* returns has an integer relevance in [10,100], rescored entries after the
\* +15 bonus and emergency entries alike.
ReturnedRelevanceInRange ==
  returned => \A e \in DOMAIN output : output[e].relevance \in 10..100

\* a rescored entry whose score with the bonus would pass 100
ReturnedBonusEntryAtHundred ==
  /\ returned
  /\ \E e \in DOMAIN output :
       /\ output[e].combination_type = "hierarchical_priority"
       /\ output[e].benennung = "Migration, Zuwanderung, Flucht"
       /\ output[e].relevance = 100

ExplorationDepthBounded ==
  \A c \in DOMAIN children_found : children_found[c].depth <= 2

\* the stages of a run, counted from its end
StageRank ==
  [start |-> 7, search |-> 6, explore |-> 5, rescore |-> 4, emergency |-> 3,
   annotate |-> 2, return |-> 1, done |-> 0]

\* the passes the running loop has still to make
PassesLeft ==
  CASE pc = "explore" -> Len(TopResults) + 1 - cursor
    [] pc = "rescore" -> Len(all_results) + 1 - cursor
    [] pc = "annotate" -> Len(emergency_results) + 1 - cursor
    [] OTHER -> 0

\* what is left of a run: it cannot fall for ever
StepsLeft == 100 * StageRank[pc] + PassesLeft

\* C5: whatever taxonomy the service serves, chains of Untergruppe-level
\* children included, no result is found more than 2 levels of child
\* exploration below an initial result, and the exploration ends: every
\* step of the run, an exploration among them, brings the run nearer to
\* its end.
DepthBoundedAndRunEnds ==
  [][/\ ExplorationDepthBounded'
     /\ StepsLeft' < StepsLeft
     /\ StepsLeft' >= 0]_vars

\* a child of Untergruppe level, under which the chain goes on, was found
FoundBroadChild ==
  \E c \in DOMAIN children_found :
    /\ children_found[c].notation = "MNA"
    /\ children_found[c].depth = 1
    /\ ChainChildren("MNA").nodes # << >>

\* whether the emergency search was answered with a node element at all,
\* and with one that has a notation and a label
EmergencyHit ==
  \E t \in DOMAIN nodes_responses.responses :
    nodes_responses.responses[t].ok /\ nodes_responses.responses[t].nodes # << >>

EmergencyHitWithLabel ==
  \E t \in DOMAIN nodes_responses.responses :
    /\ nodes_responses.responses[t].ok
    /\ \E n \in DOMAIN nodes_responses.responses[t].nodes :
         /\ ~Falsy(nodes_responses.responses[t].nodes[n].notation)
         /\ ~Falsy(nodes_responses.responses[t].nodes[n].benennung)

\* a run with the RVK search enabled whose priority search found nothing
ReturnedFromEmergency ==
  returned /\ rvk_enabled /\ final_results_with_scores = << >>

AllTaggedEmergency ==
  \A e \in DOMAIN output :
    output[e].relevance = 25 /\ output[e].combination_type = "emergency"

RegionalScoreBase(text) ==
  LET i == FirstRegion(regional_scoring_chain, text)
  IN IF i = -1 THEN Absent ELSE 50 - (i * 2)

\* regional_score as it enters the weighted sum, in hundredths:
\* if not primary_keyword_match_in_rvk: regional_score *= 0.05
RegionalEntering(regional_score, keyword_match) ==
  IF keyword_match THEN 100 * regional_score ELSE 5 * regional_score

RegionalLabels ==
  { "Migration, Bevölkerungsbewegung", "Migration in Deutschland",
    "Migration in die USA", "Soziologie", "Flucht nach DEUTSCHLAND" }

RegionalPaths ==
  { << >>, << Node("MN", "Deutschland") >>,
    << Node("M", "Soziologie"), Node("MN", "Soziologie in Deutschland") >>,
    << Node("MN", "USA") >>, << Node("MN", "Berlin") >> }

RegionalKeywords == { "Migration", "migration", "Flucht" }

RegionalPreferences ==
  { << >>, << "deutschland" >>, << "usa" >>, << "usa", "deutschland" >> }

InitRegional ==
  InitCall("regional_score",
           [benennung : RegionalLabels, hierarchical_path : RegionalPaths,
            primary_keyword : RegionalKeywords,
            regional_preferences : RegionalPreferences])

CallRegional ==
  /\ fn = "regional_score"
  /\ ~returned
  /\ output' =
       [regional_score_base |->
          RegionalScoreBase(PathAndBenennungLower(input.benennung,
                                                  input.hierarchical_path)),
        regional_score |->
          RegionalEntering(
            RegionalScore(PathAndBenennungLower(input.benennung,
                                                input.hierarchical_path),
                          input.regional_preferences),
            KeywordMatch(input.primary_keyword, input.benennung,
                         PathAndBenennungLower(input.benennung,
                                               input.hierarchical_path),
                         << >>))]
  /\ returned' = TRUE
  /\ UNCHANGED << fn, input >>
  /\ UNCHANGED run_vars

SpecRegional == InitRegional /\ [][CallRegional]_vars

\* the label holds the primary keyword, and label and path hold "Deutschland"
KeywordAndGermany ==
  /\ Called("regional_score")
  /\ Contains(input.benennung, input.primary_keyword)
  /\ Contains(input.benennung \o " "
                \o Join([i \in 1..Len(input.hierarchical_path) |->
                           input.hierarchical_path[i].benennung], " "),
              "Deutschland")

\* C11: a candidate whose label contains the primary keyword and whose label
\* and ancestor path contain "Deutschland" has a regional base score of at
\* least 50, and with "deutschland" among the regional preferences its
\* regional score enters the weighted sum as at least 90.
GermanyScoresFiftyAndNinety ==
  KeywordAndGermany =>
    /\ output.regional_score_base >= 50
    /\ "deutschland" \in Range(input.regional_preferences) =>
         output.regional_score >= 90 * 100

\* the scenario: "Migration, Bevölkerungsbewegung" under a path that holds
\* "Deutschland", Germany preferred
ScoredMigrationUnderGermany ==
  /\ KeywordAndGermany
  /\ input.benennung = "Migration, Bevölkerungsbewegung"
  /\ input.primary_keyword = "Migration"
  /\ input.regional_preferences = << "deutschland" >>
  /\ output.regional_score = 90 * 100

(***************************************************************************)
(* RVKClassifierAI.format_hierarchical_display, on the path data that      *)
(* get_hierarchical_path returned for the suggestion's notation            *)
(***************************************************************************)
\* if len(benennung) > 70: benennung = benennung[:67] + "..."
Truncated(benennung) ==
  IF Len(benennung) > 70 THEN SubSeq(benennung, 1, 67) \o "..." ELSE benennung

format_hierarchical_display(notation, hierarchical_path_data) ==
  IF hierarchical_path_data = << >>
  THEN notation \o " (No hierarchy available)"
  ELSE Join([i \in 1..Len(hierarchical_path_data) |->
               hierarchical_path_data[i].notation \o " ("
                 \o determine_rvk_hierarchy_level(hierarchical_path_data[i].notation)
                 \o "): " \o Truncated(hierarchical_path_data[i].benennung)],
            " → ")

(***************************************************************************)
(* get_hierarchical_path and the two formatters, on a notation, the        *)
(* ancestors the service returns and its answer to the node request        *)
(***************************************************************************)
MaxAncestors == 3

AncestorNodes ==
  { Node("M", "Soziologie"), Node("MN", "Soziologie in Deutschland"),
    Node("MN 8000 - MN 8999", "Migration"), Node("MS", ""),
    Node(Absent, "Ohne Notation") }

PathNodeAnswers ==
  { NodeAnswer("node", Absent, "Migration, Zuwanderung, Flucht"),
    NodeAnswer("node", "MN 8300",
               "Migration, Zuwanderung, Flucht, Vertreibung, Bevölkerungsbewegung und Integration"),
    NodeAnswer("node", Absent, Absent),
    NodeAnswer("not_ok", Absent, Absent),
    NodeAnswer("raise", Absent, Absent) }

PathLookups ==
  [ancestors : {Failed} \cup { Ok(nodes) : nodes \in SeqsUpTo(AncestorNodes, MaxAncestors) },
   node : PathNodeAnswers]

InitPath ==
  InitCall("get_hierarchical_path", [notation : {"MN 8300"}, lookup : PathLookups])

CallPath ==
  /\ fn = "get_hierarchical_path"
  /\ ~returned
  /\ output' =
       [path |-> get_hierarchical_path(input.notation,
                                       [validated_cache |-> NoCache, invalid_cache |-> {}],
                                       input.lookup).path,
        path_display |->
          format_hierarchical_path(
            get_hierarchical_path(input.notation,
                                  [validated_cache |-> NoCache, invalid_cache |-> {}],
                                  input.lookup).path),
        display |->
          format_hierarchical_display(
            input.notation,
            get_hierarchical_path(input.notation,
                                  [validated_cache |-> NoCache, invalid_cache |-> {}],
                                  input.lookup).path)]
  /\ returned' = TRUE
  /\ UNCHANGED << fn, input >>
  /\ UNCHANGED run_vars

SpecPath == InitPath /\ [][CallPath]_vars

\* the ancestors request and the node request both succeeded
LookupsSucceeded ==
  /\ Called("get_hierarchical_path")
  /\ input.lookup.ancestors.ok
  /\ input.lookup.node.kind = "node"

\* the arrow-joined segments of a formatted path
Segments(formatted) == IF formatted = "" THEN << >> ELSE SplitOn(formatted, " → ")

\* the steps format_hierarchical_path shows
ShownSteps(path) ==
  SelectSeq(path, LAMBDA level : level.notation # "" /\ level.benennung # "")

EachBeginsWithItsNotation(segments, steps) ==
  /\ Len(segments) = Len(steps)
  /\ \A i \in 1..Len(steps) : StartsWith(segments[i], steps[i].notation)

\* C12 as stated: a notation with three ancestors and successful lookups is
\* formatted to exactly three segments, each beginning with the notation of
\* its path step.
ThreeAncestorsGiveThreeSegments ==
  (LookupsSucceeded /\ Len(input.lookup.ancestors.nodes) = 3) =>
    /\ Len(Segments(output.path_display)) = 3
    /\ Len(Segments(output.display)) = 3
    /\ EachBeginsWithItsNotation(Segments(output.display), output.path)

\* C12: with successful lookups the path holds the ancestors and the node
\* itself; format_hierarchical_display renders one segment per step, and
\* format_hierarchical_path one segment per step that has a notation and a
\* label, each segment beginning with the notation of its step.
SegmentsFollowThePath ==
  LookupsSucceeded =>
    /\ Len(output.path) = Len(input.lookup.ancestors.nodes) + 1
    /\ EachBeginsWithItsNotation(Segments(output.display), output.path)
    /\ EachBeginsWithItsNotation(Segments(output.path_display), ShownSteps(output.path))

\* three ancestors with notation and label, and the node: four segments
FormattedThreeAncestorsAndNode ==
  /\ LookupsSucceeded
  /\ Len(input.lookup.ancestors.nodes) = 3
  /\ Len(ShownSteps(output.path)) = 4
  /\ Len(Segments(output.path_display)) = 4
  /\ Len(Segments(output.display)) = 4

(***************************************************************************)
(* One RVKNotationValidator and any sequence of validate_notation calls    *)
(* on it, the service answering each request in any way.  output is the    *)
(* last call: the notation asked for, the node returned and whether a      *)
(* request went out.                                                       *)
(***************************************************************************)
search_vars ==
  << pc, rvk_enabled, ai_analysis, rvk_combinations, signals, nodes_responses,
     initial_potential_results, all_results, seen_notations, cursor, children_found,
     emergency_results, final_results_with_scores, suggestions >>

ValidatedNotations == { "MN", "MN 8300", "XX 99999" }

\* node found, node found under another spelling, OK response without a
\* node or with a malformed body, non-OK status, exception
ValidateAnswers ==
  { NodeAnswer("node", Absent, "Soziologie"),
    NodeAnswer("node", "MN 08300", Absent),
    NodeAnswer("no_node", Absent, Absent),
    NodeAnswer("not_ok", Absent, Absent),
    NodeAnswer("raise", Absent, Absent) }

\* before the first call: no notation asked for, nothing returned
NoCall == [notation |-> Absent, answer |-> NodeAnswer(Absent, Absent, Absent)]

NoReturn == [notation |-> Absent, node |-> NoNode, requested |-> FALSE]

InitValidate ==
  /\ fn = "validate_notation"
  /\ input = NoCall
  /\ output = NoReturn
  /\ returned = FALSE
  /\ RunAtRest

\* the call's effect on the instance and what the caller gets
Validated(notation, answer, result) ==
  /\ input' = [notation |-> notation, answer |-> answer]
  /\ output' = [notation |-> notation, node |-> result.node,
                requested |-> result.requested]
  /\ validated_cache' = result.validated_cache
  /\ invalid_cache' = result.invalid_cache

CallValidate ==
  /\ fn = "validate_notation"
  /\ \E notation \in ValidatedNotations, answer \in ValidateAnswers :
       Validated(notation, answer, validate_notation(notation, caches, answer))
  /\ returned' = TRUE
  /\ UNCHANGED << fn, search_vars >>

SpecValidate == InitValidate /\ [][CallValidate]_vars

\* C13: no notation is at once a key of validated_cache and a member of
\* invalid_cache, after any sequence of validate_notation calls with any
\* outcomes.
CachesDisjoint ==
  DOMAIN validated_cache \cap invalid_cache = {}

\* both caches hold notations, after calls that found a node and calls
\* that did not
BothCachesFilled ==
  /\ Called("validate_notation")
  /\ DOMAIN validated_cache # {}
  /\ invalid_cache # {}

\* a call for a notation the instance holds: the cached result comes back
\* and no request goes out
AnsweredFromCache ==
  /\ input'.notation \in DOMAIN validated_cache =>
       /\ output'.node = validated_cache[input'.notation]
       /\ ~output'.requested
  /\ input'.notation \in invalid_cache =>
       /\ output'.node = NoNode
       /\ ~output'.requested

\* no entry leaves a cache or changes
EntriesKept ==
  /\ \A n \in DOMAIN validated_cache :
       /\ n \in DOMAIN validated_cache'
       /\ validated_cache'[n] = validated_cache[n]
  /\ invalid_cache \subseteq invalid_cache'

\* C14: once a notation is recorded as valid or as invalid, every later
\* validate_notation call for it returns the cached node, or no node,
\* without a request, and no call removes or overwrites an entry.
CachedAnswersStand ==
  [][AnsweredFromCache /\ EntriesKept]_vars

\* a call answered from invalid_cache while validated_cache holds a node
AnsweredInvalidFromCache ==
  /\ Called("validate_notation")
  /\ output.notation \in invalid_cache
  /\ ~output.requested
  /\ DOMAIN validated_cache # {}

(***************************************************************************)
(* Failures of single requests during the priority search                  *)
(***************************************************************************)
\* search_with_hierarchical_priority_logic has returned, and the search
\* recorded is its own
PrioritySearchReturned ==
  /\ fn = "analyze_pica_data_with_rvk_hierarchy"
  /\ pc \in {"emergency", "return", "done"}
  /\ rvk_enabled
  /\ nodes_responses.search_terms # emergency_terms

\* its return value
PriorityResult == Take(final_results_with_scores, TOP_RESULTS)

DerivedKeywordNeverEmpty ==
  Called("extract_rvk_hierarchical_combinations") => ~Falsy(output.primary_keyword)

(***************************************************************************)
(* The priority search as a function of the order in which                 *)
(* list(set(...)) enumerates the search terms, the service answering each  *)
(* term the same way whatever the order.  The /children requests and the   *)
(* path lookups fail, so that the candidates are those of the /nodes       *)
(* search and every path is empty.                                         *)
(***************************************************************************)
\* the candidates in the order collected, each rescored
RescoredInOrder(collected, derived, related_concepts) ==
  [i \in 1..Len(collected) |-> Rescored(collected[i], << >>, derived, related_concepts)]

PrioritySearch(all_search_terms, responses, derived, related_concepts) ==
  SelectTop(
    RescoredInOrder(
      AddUnseen([all_results |-> << >>, seen_notations |-> {}],
                search_nodes_endpoint_and_validate(all_search_terms, << >>, responses))
        .all_results,
      derived, related_concepts))

OrderAnalyses ==
  { AnalysisChemnitz, [AnalysisChemnitz EXCEPT !.suggestedSearchTerms = << "Flucht" >>] }

\* one label for a notation in every answer
OrderResponses ==
  { Failed,
    Ok(<< Node("MN", "Soziologie") >>),
    Ok(<< Node("MS", "Soziologie") >>),
    Ok(<< Node("NQ", "Deutsche Geschichte") >>),
    Ok(<< Node("MN", "Soziologie"), Node("NQ", "Deutsche Geschichte") >>) }

SearchTermsOf(analysis) ==
  AllSearchTerms(
    DeriveSignals(extract_rvk_hierarchical_combinations(analysis), analysis).primary_keyword,
    analysis.suggestedSearchTerms,
    DeriveSignals(extract_rvk_hierarchical_combinations(analysis), analysis)
      .regional_preferences)

InitOrder ==
  /\ fn = "search_with_hierarchical_priority_logic"
  /\ \E analysis \in OrderAnalyses :
       input \in [analysis : {analysis},
                  answers : [SearchTermsOf(analysis) -> OrderResponses]]
  /\ output = Absent
  /\ returned = FALSE
  /\ RunAtRest

\* the candidates returned, in order, each with its relevance
Ranking(results) ==
  [i \in 1..Len(results) |->
     [notation |-> results[i].notation, relevance |-> results[i].relevance]]

\* the rankings the search returns, one for every order of the search terms
CallOrder ==
  /\ fn = "search_with_hierarchical_priority_logic"
  /\ ~returned
  /\ output' =
       { Ranking(
           PrioritySearch(
             all_search_terms,
             [i \in 1..Len(all_search_terms) |-> input.answers[all_search_terms[i]]],
             DeriveSignals(extract_rvk_hierarchical_combinations(input.analysis),
                           input.analysis),
             input.analysis.relatedGermanConcepts)) :
           all_search_terms \in Enumerations(SearchTermsOf(input.analysis)) }
  /\ returned' = TRUE
  /\ UNCHANGED << fn, input >>
  /\ UNCHANGED run_vars

SpecOrder == InitOrder /\ [][CallOrder]_vars

\* C17: the same buckets, analysis and answers per query give the same
\* candidates in the same order with the same relevances, whatever the
\* order in which the set of search terms is enumerated.
OneResultForEveryOrder ==
  Called("search_with_hierarchical_priority_logic") => Cardinality(output) = 1

(***************************************************************************)
(* A session.  The framework runs the script from the top on every         *)
(* interaction, the press of the analysis button included: main() builds   *)
(* RVKClassifierAI(), whose __init__ builds a new RVKNotationValidator;    *)
(* the session state keeps config and results only.  The lookups of the    *)
(* request then go to that validator.                                      *)
(***************************************************************************)
InitSession ==
  /\ fn = "main"
  /\ input = NoCall
  /\ output = NoReturn
  /\ returned = FALSE
  /\ RunAtRest

\* classifier = RVKClassifierAI(): the next request begins
main ==
  /\ fn = "main"
  /\ returned
  /\ validated_cache' = NoCache
  /\ invalid_cache' = {}
  /\ returned' = FALSE
  /\ UNCHANGED << fn, input, output, search_vars >>

\* a validate_notation call of the request
ValidateInRequest ==
  /\ fn = "main"
  /\ \E notation \in ValidatedNotations, answer \in ValidateAnswers :
       Validated(notation, answer, validate_notation(notation, caches, answer))
  /\ returned' = TRUE
  /\ UNCHANGED << fn, search_vars >>

NextSession == main \/ ValidateInRequest

SpecSession == InitSession /\ [][NextSession]_vars

\* C18: what one analysis request recorded in validated_cache or
\* invalid_cache is still there when the next request of the session runs,
\* so that the later request validates it without a remote call.
CacheOutlivesRequest ==
  [][EntriesKept]_vars

\* the notations of a list of results
NotationsOf(results) == { results[i].notation : i \in DOMAIN results }

\* C19: once the exploration of the top results is through, every child it
\* returned whose notation was not among the candidates of the /nodes
\* search is in the flat candidate list that is rescored.
ExploredChildrenJoinTheCandidates ==
  pc \in {"rescore", "annotate", "done"}
    => \A c \in DOMAIN children_found :
         children_found[c].notation \notin NotationsOf(initial_potential_results)
           => children_found[c].notation \in NotationsOf(all_results)

\* the child of the call has the primary keyword in its label, and its
\* path names Germany, the region of regional_preferences
KeywordChildUnderGermany ==
  /\ input.child.benennung # Absent
  /\ Contains(Lower(input.child.benennung), "migration")
  /\ input.lookup = LookupGermany

\* the floored and clamped score of the child of the call, with the flat
\* bonus for Germany
BonusScore ==
  LET path == get_hierarchical_path(input.child.notation,
                                    [validated_cache |-> NoCache, invalid_cache |-> {}],
                                    input.lookup).path
      text == PathAndBenennungLower(input.child.benennung, path)
  IN Min(100,
         ChildFinalScore(input.parent_relevance,
                         calculate_relevance_for_description(<< "migration" >>,
                                                             input.child.benennung),
                         ChildRegionalScore(text, << "deutschland" >>),
                         TRUE)
         + 30)

\* C20: a child whose label contains the primary keyword and whose detected
\* region, Germany, is in regional_preferences is emitted by
\* search_children_endpoint_and_validate with its floored and clamped score
\* plus 30, capped at 100.
KeywordChildEmittedWithBonus ==
  (Called("search_children_endpoint_and_validate") /\ KeywordChildUnderGermany)
    => \E c \in DOMAIN output.children_results :
         /\ output.children_results[c].notation = input.child.notation
         /\ output.children_results[c].relevance = BonusScore

(***************************************************************************)
(* The choice of the results whose children are explored                   *)
(* (search_with_hierarchical_priority_logic, "Step 4"), as a function of   *)
(* the results of the /nodes search                                        *)
(***************************************************************************)
\* every broad result, whatever its place
ExploresEveryBroad(results) ==
  SelectSeq(SortByRelevance(results), LAMBDA r : IsBroadCategory(r.notation))

\* the results for which search_children_endpoint_and_validate is called,
\* at depth 0, in order: the sort, the slice, the test is_broad_category
ExplorationTargets(results) ==
  SelectSeq(Take(SortByRelevance(results), TOP_N_FOR_CHILD_EXPLORATION),
            LAMBDA r : IsBroadCategory(r.notation))

MaxExploreCandidates == 7

\* distinct notations: two-letter groups, a fine group, a range
ExploreNotations ==
  << "MA", "MN 8300", "MB", "MN 1000 - MN 2000", "MC", "MD", "ME", "MF" >>

ExploreRelevances == {10, 55, 90}

InitExplore ==
  InitCall("child_exploration",
           UNION { { [i \in 1..n |->
                        [notation |-> ExploreNotations[i], benennung |-> "Soziologie",
                         relevance |-> relevances[i]]] :
                       relevances \in [1..n -> ExploreRelevances] } :
                   n \in 0..MaxExploreCandidates })

CallExplore ==
  /\ fn = "child_exploration"
  /\ ~returned
  /\ output' = ExplorationTargets(input)
  /\ returned' = TRUE
  /\ UNCHANGED << fn, input >>
  /\ UNCHANGED run_vars

SpecExplore == InitExplore /\ [][CallExplore]_vars

\* the results of the /nodes search with a relevance above that of result
Above(result) ==
  { i \in DOMAIN input : input[i].relevance > result.relevance }

\* C21: the exploration of children is started for at most 5 results of
\* the /nodes search, each of them among the 5 of highest relevance and
\* each of level Hauptgruppe or Untergruppe or a range notation.
ExploresOnlyBroadAmongTopFive ==
  Called("child_exploration") =>
    /\ Len(output) <= 5
    /\ \A t \in DOMAIN output :
         /\ output[t] \in Range(input)
         /\ Cardinality(Above(output[t])) < 5
         /\ \/ determine_rvk_hierarchy_level(output[t].notation)
                 \in {"Hauptgruppe", "Untergruppe"}
            \/ /\ Contains(output[t].notation, " - ")
               /\ Len(Split(output[t].notation)) > 1

\* seven results, six of them broad, and the exploration started for five
ExploredFiveOfSeven ==
  /\ Called("child_exploration")
  /\ Len(input) = 7
  /\ Len(output) = 5
  /\ \E t \in DOMAIN output : output[t].notation = "MN 1000 - MN 2000"

(***************************************************************************)
(* The merge of search_nodes_endpoint_and_validate, on search terms in     *)
(* every order, several of them answered with the same notation            *)
(***************************************************************************)
MaxMergeTerms == 3

MergeTerms == { "zuwanderung", "flucht", "recht" }

MergeResponses ==
  { Failed,
    Ok(<< Node("MN 8300", "Migration, Zuwanderung, Flucht") >>),
    Ok(<< Node("MN 8300", "Migration, Zuwanderung, Flucht"),
          Node("MN", "Soziologie") >>) }

MergeFilters == { << >>, << "M" >> }

InitMerge ==
  InitCall("merge_suggestions",
           [search_terms : [1..MaxMergeTerms -> MergeTerms],
            responses : [1..MaxMergeTerms -> MergeResponses],
            rvk_notation_prefixes : MergeFilters])

CallMerge ==
  /\ fn = "merge_suggestions"
  /\ ~returned
  /\ output' = search_nodes_endpoint_and_validate(input.search_terms,
                                                  input.rvk_notation_prefixes,
                                                  input.responses)
  /\ returned' = TRUE
  /\ UNCHANGED << fn, input >>
  /\ UNCHANGED run_vars

SpecMerge == InitMerge /\ [][CallMerge]_vars

\* the entries in the order the terms and the node elements gave them
Arrived ==
  Concat([i \in 1..Len(input.search_terms) |->
            SuggestionsOfTerm(input.search_terms[i], input.responses[i],
                              CleanPrefixes(input.rvk_notation_prefixes))])

\* kept is the entry to keep among the arrived entries of its notation:
\* none with a prefix match when kept has none, and among those of its
\* prefix status the first of the highest relevance
BestOfItsNotation(kept, arrived) ==
  LET same == { i \in DOMAIN arrived : arrived[i].notation = kept.notation }
      peers == { i \in same : arrived[i].rvk_prefix_match = kept.rvk_prefix_match }
      best == { i \in peers : \A j \in peers : arrived[j].relevance <= arrived[i].relevance }
  IN /\ \A i \in same : arrived[i].rvk_prefix_match => kept.rvk_prefix_match
     /\ best # {}
     /\ kept = arrived[CHOOSE i \in best : \A j \in best : i <= j]

\* exactly one entry of merged for every notation of arrived, and each
\* entry of merged the one to keep
KeepsBestOfEachNotation(merged, arrived) ==
  /\ \A i \in DOMAIN arrived :
       Cardinality({ k \in DOMAIN merged :
                       merged[k].notation = arrived[i].notation }) = 1
  /\ \A k \in DOMAIN merged : BestOfItsNotation(merged[k], arrived)

\* C22: for each notation that several search terms return, exactly one
\* entry is kept; it is never one without a prefix match when one with a
\* prefix match arrived, and among the entries of its prefix status it has
\* the highest relevance, the earliest such entry being kept.
MergeKeepsBestOfEachNotation ==
  Called("merge_suggestions") => KeepsBestOfEachNotation(output, Arrived)

\* MN 8300 arrived for three terms, two of them with the highest
\* relevance, under a prefix filter
MergedThreeWithATie ==
  /\ Called("merge_suggestions")
  /\ input.search_terms = << "recht", "flucht", "zuwanderung" >>
  /\ input.rvk_notation_prefixes = << "M" >>
  /\ \A i \in 1..3 : input.responses[i].ok /\ input.responses[i].nodes # << >>
  /\ \E k \in DOMAIN output :
       /\ output[k].notation = "MN 8300"
       /\ output[k].keyword = "flucht"
       /\ output[k].relevance = 45

(***************************************************************************)
(* One pass of the rescoring loop of                                       *)
(* search_with_hierarchical_priority_logic, on a collected result with     *)
(* its resolved path                                                       *)
(***************************************************************************)
\* hauptgruppe_score as it enters the weighted sum, in tenths:
\* if not primary_keyword_match_in_rvk: hauptgruppe_score *= 0.5
HauptgruppeEntering(hauptgruppe_score, keyword_match) ==
  IF keyword_match THEN 10 * hauptgruppe_score ELSE 5 * hauptgruppe_score

RescoreNotations == { "MN 8300", "LB 56015", "NQ 1000", "qa" }

RescoreLabels ==
  { "Migration, Zuwanderung, Flucht", "Soziologie", "Migration in die USA",
    "Deutsche Geschichte" }

RescorePaths ==
  { << >>, << Node("MN", "Soziologie in Deutschland") >>,
    << Node("MN", "Migration") >>, << Node("MN", "Zuwanderung in Frankreich") >> }

RescorePriorities == { << >>, << "M" >>, << "N", "Q" >> }

RescorePreferences == { << >>, << "deutschland" >>, << "usa" >> }

RescoreConcepts == { << >>, << "Zuwanderung" >> }

\* relevances of the /nodes search and of the exploration
RescoreRelevances == {10, 95}

InitRescore ==
  InitCall("rescore",
           [notation : RescoreNotations, benennung : RescoreLabels,
            relevance : RescoreRelevances, hierarchical_path : RescorePaths,
            priority_hauptgruppen : RescorePriorities,
            regional_preferences : RescorePreferences,
            related_concepts : RescoreConcepts])

\* the collected result and the signals of the call
RescoreResult(in) ==
  [notation |-> in.notation, benennung |-> in.benennung, relevance |-> in.relevance,
   keyword |-> "migration", rvk_prefix_match |-> FALSE, combination_type |-> Absent,
   depth |-> 0, rvk_hierarchy_level |-> Absent, hierarchical_path |-> << >>,
   hauptgruppe_match |-> FALSE]

RescoreSignals(in) ==
  [priority_hauptgruppen |-> in.priority_hauptgruppen,
   primary_keyword |-> "migration",
   regional_preferences |-> in.regional_preferences]

\* the scores of the pass and the relevance it stores
RescoreTrace(result, text, hierarchical_path, derived, related_concepts) ==
  [hauptgruppe_base |-> HauptgruppeScore(result.notation, derived.priority_hauptgruppen),
   hauptgruppe_score |->
     HauptgruppeEntering(
       HauptgruppeScore(result.notation, derived.priority_hauptgruppen),
       KeywordMatch(derived.primary_keyword, result.benennung, text, related_concepts)),
   found_regional_level_in_notation |-> FirstRegion(regional_scoring_chain, text),
   regional_base |-> RegionalScore(text, derived.regional_preferences),
   regional_score |->
     RegionalEntering(
       RegionalScore(text, derived.regional_preferences),
       KeywordMatch(derived.primary_keyword, result.benennung, text, related_concepts)),
   keyword_score |->
     calculate_relevance_for_description(<< derived.primary_keyword >>, result.benennung),
   keyword_match |->
     KeywordMatch(derived.primary_keyword, result.benennung, text, related_concepts),
   relevance |->
     Rescored(result, hierarchical_path, derived, related_concepts).relevance]

CallRescore ==
  /\ fn = "rescore"
  /\ ~returned
  /\ output' = RescoreTrace(RescoreResult(input),
                            PathAndBenennungLower(input.benennung,
                                                  input.hierarchical_path),
                            input.hierarchical_path, RescoreSignals(input),
                            input.related_concepts)
  /\ returned' = TRUE
  /\ UNCHANGED << fn, input >>
  /\ UNCHANGED run_vars

SpecRescore == InitRescore /\ [][CallRescore]_vars

\* clamp(x, 10, 100) of the weighted sum, the scores being those that
\* enter it: 0.3 h + 0.25 r + 0.45 k, in ten-thousandths, truncated
ClampedWeightedSum(trace) ==
  LET sum == 300 * trace.hauptgruppe_score + 25 * trace.regional_score
             + 4500 * trace.keyword_score
      whole == sum \div 10000
  IN IF whole < 10 THEN 10 ELSE IF whole > 100 THEN 100 ELSE whole

Penalized(trace) ==
  /\ trace.hauptgruppe_score = 5 * trace.hauptgruppe_base
  /\ trace.regional_score = 5 * trace.regional_base

\* the primary keyword or a related concept in the label or in the text of
\* the resolved path
TopicInLabelOrPath ==
  LET text == PathAndBenennungLower(input.benennung, input.hierarchical_path)
  IN \/ Contains(text, "migration")
     \/ \E c \in DOMAIN input.related_concepts :
          Contains(text, Lower(input.related_concepts[c]))

\* C24: the regional score is multiplied by 0.05 and the main-group score
\* by 0.5 if and only if neither the primary keyword nor any related
\* concept appears in the candidate's label or in its path text.
PenalizedIffTopicAbsent ==
  Called("rescore") => (Penalized(output) <=> ~TopicInLabelOrPath)

\* the regions of regional_scoring_chain, by index from 0, that the label
\* and path of the call name
RegionsNamed ==
  { i \in 0..(Len(regional_scoring_chain) - 1) :
      RegionIn(regional_scoring_chain[i + 1],
               PathAndBenennungLower(input.benennung, input.hierarchical_path)) }

\* the bonus for the region at index i
PreferenceBonus(i) ==
  IF \E p \in DOMAIN input.regional_preferences :
       input.regional_preferences[p] = regional_scoring_chain[i + 1]
  THEN 40 ELSE 10

\* the region scored is the first one named, none when none is named
ScoresFirstRegionNamed ==
  IF RegionsNamed = {} THEN output.found_regional_level_in_notation = -1
  ELSE /\ output.found_regional_level_in_notation \in RegionsNamed
       /\ \A i \in RegionsNamed : output.found_regional_level_in_notation <= i

\* C25, as stated: the first region found, at index i, gives 50 - 5 i, plus
\* 40 if it is in the regional preferences and plus 10 otherwise; no region
\* gives 0.
RegionalScoreFallsFiveAStep ==
  Called("rescore") =>
    /\ ScoresFirstRegionNamed
    /\ output.regional_base =
         (IF RegionsNamed = {} THEN 0
          ELSE 50 - 5 * output.found_regional_level_in_notation
               + PreferenceBonus(output.found_regional_level_in_notation))

\* C25, amended: the first region found, at index i of the order of
\* fourteen regions, gives 50 - 2 i, plus 40 if it is in the regional
\* preferences and plus 10 otherwise; no region gives 0.
RegionalScoreFallsTwoAStep ==
  Called("rescore") =>
    /\ ScoresFirstRegionNamed
    /\ output.regional_base =
         (IF RegionsNamed = {} THEN 0
          ELSE 50 - 2 * output.found_regional_level_in_notation
               + PreferenceBonus(output.found_regional_level_in_notation))

\* the path names France, third of the order, and the label the USA,
\* second and preferred: the USA is scored
ScoredUSABeforeFrance ==
  /\ Called("rescore")
  /\ RegionsNamed = {1, 2}
  /\ input.regional_preferences = << "usa" >>
  /\ output.regional_base = 88

(***************************************************************************)
(* The buckets of extract_rvk_hierarchical_combinations                    *)
(***************************************************************************)
InitBuckets ==
  InitCall("hierarchical_combinations",
           { [NoAnalysis EXCEPT !.title = title, !.primaryKeyword = keyword,
                                !.subjects = subjects] :
               title \in ExtractTitles, keyword \in ExtractKeywords,
               subjects \in ExtractSubjects })

CallBuckets ==
  /\ fn = "hierarchical_combinations"
  /\ ~returned
  /\ output' = extract_rvk_hierarchical_combinations(input)
  /\ returned' = TRUE
  /\ UNCHANGED << fn, input >>
  /\ UNCHANGED run_vars

SpecBuckets == InitBuckets /\ [][CallBuckets]_vars

\* the entry of a bucket for a notation and its description
BucketEntry(analysis, notation, description) ==
  Lower(Get(analysis.primaryKeyword, "")) \o " + " \o notation
  \o " (" \o description \o ")"

\* every subgroup entry belongs to a subgroup whose description begins
\* with a word of the text, every fine-group entry to a fine group with a
\* word of its description in the text
EmittedOnlyOnOwnWord(combinations, analysis, full_text) ==
  \A g \in DOMAIN HAUPTGRUPPE_MAPPING :
    /\ \A u \in DOMAIN HAUPTGRUPPE_MAPPING[g].untergruppen :
         BucketEntry(analysis, HAUPTGRUPPE_MAPPING[g].untergruppen[u][1],
                     HAUPTGRUPPE_MAPPING[g].untergruppen[u][2])
             \in Range(combinations.untergruppe_context)
           => Contains(full_text,
                       Split(Lower(HAUPTGRUPPE_MAPPING[g].untergruppen[u][2]))[1])
    /\ \A f \in DOMAIN HAUPTGRUPPE_MAPPING[g].feingruppen_examples :
         BucketEntry(analysis, HAUPTGRUPPE_MAPPING[g].feingruppen_examples[f][1],
                     HAUPTGRUPPE_MAPPING[g].feingruppen_examples[f][2])
             \in Range(combinations.feingruppe_context)
           => AnyIn(Split(Lower(HAUPTGRUPPE_MAPPING[g].feingruppen_examples[f][2])),
                    full_text)

\* C26: for a main group that the text triggers, a subgroup entry is
\* emitted only for the subgroups whose description's first word occurs in
\* the text, and a fine-group entry only for the fine-group examples with a
\* word of the description in the text.
SubgroupsNeedTheirFirstWord ==
  Called("hierarchical_combinations") =>
    EmittedOnlyOnOwnWord(output, input, FullText(input))

\* the steps of the ancestors in the order the service returned them
AncestorSteps(ancestors) ==
  [i \in 1..Len(ancestors) |->
     [notation |-> Get(ancestors[i].notation, ""),
      benennung |-> Get(ancestors[i].benennung, "")]]

\* the steps of a path without their level
StepsOf(path) ==
  [i \in 1..Len(path) |->
     [notation |-> path[i].notation, benennung |-> path[i].benennung]]

\* C27: the path resolved for a notation holds the ancestors in the order
\* the service returned them, root to parent, and then, as its last
\* element, the validated node itself, for every chain of ancestors.
PathRunsRootToLeaf ==
  LookupsSucceeded =>
    /\ Len(output.path) = Len(input.lookup.ancestors.nodes) + 1
    /\ SubSeq(StepsOf(output.path), 1, Len(input.lookup.ancestors.nodes))
         = AncestorSteps(input.lookup.ancestors.nodes)
    /\ output.path[Len(output.path)].notation
         = Get(input.lookup.node.notation, input.notation)

\* the ancestors request succeeded and the lookup of the node did not:
\* it raised, or was answered without a usable node
NodeLookupFailed ==
  /\ Called("get_hierarchical_path")
  /\ input.lookup.ancestors.ok
  /\ input.lookup.node.kind # "node"

\* C28: the path is empty when the ancestors request fails, and
\* also when it succeeds but the lookup of the node itself fails.
EmptyPathOnAnyFailure ==
  /\ (Called("get_hierarchical_path") /\ ~input.lookup.ancestors.ok)
       => output.path = << >>
  /\ NodeLookupFailed => output.path = << >>

\* the call of the step sent a request and the request raised
RequestRaised ==
  output'.requested /\ input'.answer.kind = "raise"

\* a call whose request raises returns no node and changes neither cache
RaiseChangesNothing ==
  RequestRaised =>
    /\ output'.node = NoNode
    /\ validated_cache' = validated_cache
    /\ invalid_cache' = invalid_cache

\* a notation enters invalid_cache only by a request that was answered,
\* and answered without a node
InvalidOnlyOnAnswer ==
  invalid_cache' # invalid_cache =>
    /\ invalid_cache' = invalid_cache \cup {input'.notation}
    /\ output'.requested
    /\ input'.answer.kind \in {"not_ok", "no_node", "malformed"}

\* a call for a notation in neither cache sends a request
UnknownIsRequested ==
  input'.notation \notin (DOMAIN validated_cache \cup invalid_cache)
    => output'.requested

\* C29: when the remote call inside validate_notation(n) raises, the call
\* returns no node and leaves both caches unchanged, so that n stays
\* unknown and a later call for n sends a request again; n is recorded as
\* invalid only on a response that is non-OK, has no node element or is
\* malformed.
RaiseLeavesNotationUnknown ==
  [][RaiseChangesNothing /\ InvalidOnlyOnAnswer /\ UnknownIsRequested]_vars

\* a request for a notation raised, with entries in both caches, and the
\* notation is in neither
RaisedAndStillUnknown ==
  /\ Called("validate_notation")
  /\ output.requested
  /\ input.answer.kind = "raise"
  /\ input.notation \notin (DOMAIN validated_cache \cup invalid_cache)
  /\ DOMAIN validated_cache # {}
  /\ invalid_cache # {}

(***************************************************************************)
(* validate_notation called by several threads on one                      *)
(* RVKNotationValidator.  The method holds no lock: between its look into  *)
(* the caches, its request and its write to a cache another caller can     *)
(* run.  input[t] is the notation thread t asks for; output[t] is where t  *)
(* stands in the method, the answer to its request and what it returns.    *)
(***************************************************************************)
MaxThreads == 2

Threads == 1..MaxThreads

ThreadAt(stage, answer, node, requested) ==
  [pc |-> stage, answer |-> answer, node |-> node, requested |-> requested]

InitConcurrent ==
  /\ fn = "validate_notation_threads"
  /\ input \in [Threads -> ValidatedNotations]
  /\ output = [t \in Threads |-> ThreadAt("check", NoCall.answer, NoNode, FALSE)]
  /\ returned = FALSE
  /\ RunAtRest

\* every thread has returned
AllReturned(threads) == \A t \in Threads : threads[t].pc = "return"

\* the write made only when the notation is still in neither cache
RecordedIfUnknown(notation, held, answer) ==
  IF notation \in (DOMAIN held.validated_cache \cup held.invalid_cache)
  THEN [node |-> NoNode, validated_cache |-> held.validated_cache,
        invalid_cache |-> held.invalid_cache, requested |-> TRUE]
  ELSE Requested(notation, held, answer)

\* self.validated_cache[notation] = validated_notation, or
\* self.invalid_cache.add(notation)
Recorded(notation, held, answer) ==
  Requested(notation, held, answer)

\* if notation in self.validated_cache / if notation in self.invalid_cache
CheckCaches(t) ==
  /\ output[t].pc = "check"
  /\ output' =
       [output EXCEPT ![t] =
          IF input[t] \in DOMAIN validated_cache
          THEN ThreadAt("return", @.answer, validated_cache[input[t]], FALSE)
          ELSE IF input[t] \in invalid_cache
          THEN ThreadAt("return", @.answer, NoNode, FALSE)
          ELSE ThreadAt("request", @.answer, NoNode, FALSE)]
  /\ returned' = AllReturned(output')
  /\ UNCHANGED << fn, input, validated_cache, invalid_cache, search_vars >>

\* response = requests.get(...): an exception ends the call with None
SendRequest(t) ==
  /\ output[t].pc = "request"
  /\ \E answer \in ValidateAnswers :
       output' =
         [output EXCEPT ![t] =
            ThreadAt(IF answer.kind = "raise" THEN "return" ELSE "record",
                     answer, NoNode, TRUE)]
  /\ returned' = AllReturned(output')
  /\ UNCHANGED << fn, input, validated_cache, invalid_cache, search_vars >>

\* the write to validated_cache or to invalid_cache, and the return
RecordAnswer(t) ==
  /\ output[t].pc = "record"
  /\ validated_cache' = Recorded(input[t], caches, output[t].answer).validated_cache
  /\ invalid_cache' = Recorded(input[t], caches, output[t].answer).invalid_cache
  /\ output' =
       [output EXCEPT ![t] =
          ThreadAt("return", @.answer,
                   Recorded(input[t], caches, output[t].answer).node, TRUE)]
  /\ returned' = AllReturned(output')
  /\ UNCHANGED << fn, input, search_vars >>

NextConcurrent ==
  \E t \in Threads : CheckCaches(t) \/ SendRequest(t) \/ RecordAnswer(t)

SpecConcurrent == InitConcurrent /\ [][NextConcurrent]_vars

\* the threads that asked for notation, sent a request and have written
\* its answer
Writers(notation) ==
  { t \in Threads : /\ input[t] = notation
                    /\ output[t].pc = "return"
                    /\ output[t].requested
                    /\ output[t].answer.kind # "raise" }

\* C30: the look into the caches and the write are not one atomic step:
\* every caller that found the notation in neither cache sends a request
\* and writes its own answer, whatever another caller has written since,
\* so that two interleaved calls for one notation with differing answers
\* leave it both in validated_cache and in invalid_cache.
EveryCallerWritesItsAnswer ==
  fn = "validate_notation_threads" =>
    \A notation \in ValidatedNotations :
      /\ notation \in DOMAIN validated_cache
           <=> \E t \in Writers(notation) : output[t].answer.kind = "node"
      /\ notation \in invalid_cache
           <=> \E t \in Writers(notation) : output[t].answer.kind # "node"

\* two calls for one notation, both with a request sent, and the notation
\* in both caches
NotationValidAndInvalid ==
  /\ Called("validate_notation_threads")
  /\ input[1] = input[2]
  /\ output[1].requested /\ output[2].requested
  /\ input[1] \in DOMAIN validated_cache
  /\ input[1] \in invalid_cache
====
